---- MODULE Spec2Model ----
(***************************************************************************)
(* Model of the FlowGraph layout subsystem (include/flowgraph_layout):     *)
(* the Graph container, GridLayout, CircularLayout, ForceDirectedLayout    *)
(* and HierarchicalLayout.                                                 *)
(*                                                                         *)
(* Numbers.  The scalar type T (double) is modelled by integers.  Node     *)
(* sizes, margins and spacings are drawn from even values so that every    *)
(* division by two the code performs is exact; sqrt, cos, sin and the      *)
(* remaining divisions are truncated to the integer grid (thousandths for  *)
(* the trigonometric table).  config.iterations, a double in the source,   *)
(* is held in units of 1/IterUnit so that the truncating conversion to     *)
(* size_t is visible.                                                      *)
(***************************************************************************)
EXTENDS Integers, Sequences, FiniteSets, TLC

\* ------------------------------------------------------------------------
\* Bounds of the model
\* ------------------------------------------------------------------------
MaxId == 2          \* node ids are 1..MaxId
MaxEdges == 2       \* edges of a graph in SpecHier
SmallMaxNodes == 1  \* nodes of a graph in Spec
SmallMaxEdges == 1  \* edges of a graph in Spec and SpecForce
GridMaxNodes == 3   \* nodes of a graph in SpecGrid, with ids 1..GridMaxNodes
MaxRepeats == 2     \* apply calls of a behaviour of SpecGrid
TapeLen == 1        \* period of the random draws
RandSteps == 2      \* distinct values of one random draw
MaxRegistered == 1  \* names registered in a behaviour of SpecRegistry
LayerNodes == 4     \* nodes of a graph in SpecLayers, with ids 1..LayerNodes
LayerEdges == 3     \* edges of a graph in SpecLayers
TestNodes == 3      \* largest nodeCount passed to createTestGraph in SpecTest

Ids == 1..MaxId

\* ------------------------------------------------------------------------
\* Program constants
\* ------------------------------------------------------------------------
DefaultNodeWidth == 50
DefaultNodeHeight == 30
MinCellWidth == 80
MinCellHeight == 60
MinRadius == 100
SingleNodeOffset == 100
RandomExtent == 400
TestExtent == 400
RAND_MAX == 32767
\* a cleanup that allows one pass more
MaxOverlapIterationsLong == 10 + 1

MaxOverlapIterations == 10

CoolingPercent == 95
MinTemperature == 1
RepulsionRange == 3
CrossingShare == 4
TwoPiMilli == 6283
IterUnit == 2

\* ------------------------------------------------------------------------
\* Points, nodes, configurations
\* ------------------------------------------------------------------------
Pt(px, py) == [x |-> px, y |-> py]

Origin == Pt(0, 0)

StartPositions == { Origin, Pt(100, 40) }

\* the nodes callers add: a default node at the origin, a large placed node
NodeKinds == { [position |-> Origin, size |-> Pt(DefaultNodeWidth, DefaultNodeHeight)],
               [position |-> Pt(100, 40), size |-> Pt(120, 80)] }

\* the nodes of SpecHier and SpecGrid: these, and a node without height
AllKinds == NodeKinds \cup { [position |-> Origin, size |-> Pt(DefaultNodeWidth, 0)] }

MkNode(nid, pos, sz) == [id |-> nid, position |-> pos, size |-> sz]

MkConfig(ns, ls, it, thr) ==
    [nodeSpacing |-> ns, layerSpacing |-> ls, iterations |-> it,
     convergenceThreshold |-> thr, marginX |-> 50, marginY |-> 50]

\* iterations is in units of 1/IterUnit: 8 is 4.0, 5 is 2.5, 1 is 0.5
Configs == { MkConfig(80, 100, 8, 1),
             MkConfig(20, 0, 5, 0),
             MkConfig(0, -200, 1, 1) }

AlgorithmNames == { "hierarchical", "force_directed", "grid", "circular" }

\* a LayoutResult whose errorMessage starts out set
EmptyResultStale ==
    [success |-> FALSE, iterations |-> 0, errorMessage |-> "unset",
     boundingBox |-> [x |-> 0, y |-> 0]]

\* a default-constructed LayoutResult
EmptyResult ==
    [success |-> FALSE, iterations |-> 0, errorMessage |-> "",
     boundingBox |-> Origin]

\* an early return that leaves success unset
EmptyGraphResultUnset == EmptyResult

\* the result every apply returns early for nodeCount() == 0
EmptyGraphResult == [EmptyResult EXCEPT !.success = TRUE]

\* a completed layout that leaves success unset
SuccessResultUnset(iterations, boundingBox) ==
    [EmptyResult EXCEPT !.iterations = iterations, !.boundingBox = boundingBox]

\* the result of a completed layout: success = true, iterations, boundingBox
SuccessResult(iterations, boundingBox) ==
    [EmptyResult EXCEPT !.success = TRUE, !.iterations = iterations,
                        !.boundingBox = boundingBox]

\* ------------------------------------------------------------------------
\* Arithmetic helpers
\* ------------------------------------------------------------------------
Max(a, b) == IF a >= b THEN a ELSE b

Min(a, b) == IF a <= b THEN a ELSE b

Abs(a) == IF a < 0 THEN 0 - a ELSE a

\* C++ division of a by b > 0, truncated toward zero
TDiv(a, b) == IF a >= 0 THEN a \div b ELSE 0 - ((0 - a) \div b)

\* an upper bound of the square root of n < 2^31
SqrtCeiling(n) ==
    IF n < 10000 THEN 100 ELSE IF n < 1000000 THEN 1000 ELSE 46340

RECURSIVE ISqrtBin(_, _, _)
ISqrtBin(n, lo, hi) ==
    IF lo >= hi THEN lo
    ELSE LET mid == (lo + hi + 1) \div 2
         IN IF mid * mid <= n THEN ISqrtBin(n, mid, hi)
                              ELSE ISqrtBin(n, lo, mid - 1)

\* std::sqrt truncated to an integer
ISqrt(n) == IF n <= 0 THEN 0 ELSE ISqrtBin(n, 0, SqrtCeiling(n))

\* std::ceil(std::sqrt(n))
CeilSqrt(n) == LET r == ISqrt(n) IN IF r * r = n THEN r ELSE r + 1

\* std::ceil(a / b) for positive integers
CeilDiv(a, b) == (a + b - 1) \div b


Range(s) == { s[i] : i \in DOMAIN s }

\* the element of a one-element set; { e(v) : v \in {expr} } is used below to
\* name an intermediate value that is computed once
Only(S) == CHOOSE v \in S : TRUE

\* ------------------------------------------------------------------------
\* State
\* ------------------------------------------------------------------------
VARIABLES
    algorithm_,       \* Layout::algorithm_ : the name of the wrapped algorithm
    config_,          \* Layout::config_
    nodes_,           \* Graph::nodes_ : id -> Node
    nodeOrder,        \* iteration order of the unordered_map nodes_
    edges_,           \* Graph::edges_ : sequence of [from, to]
    adjacency_list_,  \* Graph::adjacency_list_ : id -> sequence of ids
    layers_,          \* HierarchicalLayout::layers_
    node_to_layer_,   \* HierarchicalLayout::node_to_layer_
    result,           \* the LayoutResult the last apply returned
    lastCall,         \* the last operation: its name, config and choices
    rounds,           \* simulation rounds the last force-directed apply ran
    work,             \* loop counts of the last hierarchical or force-directed apply
    applies,          \* number of apply calls made so far
    factories,        \* LayoutRegistry::getFactories() : name -> algorithm class
    registryCall,     \* the last call of the registry or of a Layout constructor
    observed          \* what the caller saw of its last call of the container

vars == << algorithm_, config_, nodes_, nodeOrder, edges_, adjacency_list_, layers_,
           node_to_layer_, result, lastCall, rounds, work, applies, factories, registryCall,
           observed >>

registryVars == << factories, registryCall >>



EmptyMap == [i \in {} |-> 0]

NoCall == [op |-> "none", tape |-> <<>>, hashOrder |-> <<>>]

\* the loops an apply ran: the ids the layering sweep dequeued, in order, the
\* rounds of crossing reduction, the calls of reorderLayer (each with its
\* arguments, layers_ before it and layers_ after it) and the passes of
\* overlap cleanup
Work(dequeued, sweeps, reorders, passes) == [dequeued |-> dequeued, sweeps |-> sweeps, reorders |-> reorders, passes |-> passes, separated |-> <<>>]

NoWork == Work(<<>>, 0, <<>>, 0)

\* one call of reorderLayer
Separated(id1, id2, before, after) == [id1 |-> id1, id2 |-> id2, before |-> before, after |-> after]

Reordered(layer_idx, forward, before, after) == [layer_idx |-> layer_idx, forward |-> forward, before |-> before, after |-> after]

\* a call of the container as its caller sees it: the operation, its id
\* argument, nodeCount() as read before the call, the value returned (a
\* sequence: empty for the null pointer and for the mutators, which return
\* nothing), and the set of ids passed to addNode since the last clear
Void == <<>>

Observed(op, nid, count, value, added) ==
    [op |-> op, id |-> nid, count |-> count, value |-> value, added |-> added]

NoObservation == Observed("none", 0, 0, Void, {})

\* ------------------------------------------------------------------------
\* Graph container (LayoutTypes.hpp)
\* ------------------------------------------------------------------------
MapPut(m, k, v) == [i \in DOMAIN m \cup {k} |-> IF i = k THEN v ELSE m[i]]

nodeCount == Cardinality(DOMAIN nodes_)

edgeCount == Len(edges_)

getNeighbors(adj, nid) == IF nid \in DOMAIN adj THEN adj[nid] ELSE <<>>

\* Graph::getNode: a pointer to the node, or the null pointer
getNode(ns, nid) == IF nid \in DOMAIN ns THEN << ns[nid] >> ELSE <<>>

\* a write that reaches the size of the node as well
SetPositionAndSize(ns, nid, pos) ==
    IF nid \in DOMAIN ns
    THEN [ns EXCEPT ![nid].position = pos, ![nid].size = pos]
    ELSE ns

\* a write that creates the node when the id is not a node
SetPositionOrCreate(ns, nid, pos) ==
    IF nid \in DOMAIN ns
    THEN [ns EXCEPT ![nid].position = pos]
    ELSE [i \in DOMAIN ns \cup {nid} |->
            IF i = nid THEN [id |-> nid, position |-> pos, size |-> pos] ELSE ns[i]]

\* Graph::updateNodePosition applied to a node map
SetPosition(ns, nid, pos) ==
    IF nid \in DOMAIN ns
    THEN [ns EXCEPT ![nid].position = pos]
    ELSE ns

\* an addNode that starts the adjacency entry of the node afresh
addNodeResetting(nid, pos, sz) ==
    /\ nodes_' = [i \in DOMAIN nodes_ \cup {nid} |->
                     IF i = nid THEN [id |-> nid, position |-> pos, size |-> sz]
                                ELSE nodes_[i]]
    /\ nodeOrder' = IF nid \in DOMAIN nodes_ THEN nodeOrder
                                             ELSE <<nid>> \o nodeOrder
    /\ adjacency_list_' = [i \in DOMAIN adjacency_list_ \cup {nid} |->
                              IF i = nid THEN <<>> ELSE adjacency_list_[i]]
    /\ lastCall' = NoCall
    /\ UNCHANGED registryVars
    /\ UNCHANGED << algorithm_, config_, edges_, layers_, node_to_layer_, result, rounds, work, applies >>

\* The iteration order of nodes_ is unspecified; the model keeps it as the
\* sequence nodeOrder, a new key entering at the front (as in the bucket list
\* of libstdc++ for keys in distinct buckets), so that every order arises
\* from some order of insertion.
addNode(nid, pos, sz) ==
    /\ nodes_' = MapPut(nodes_, nid, MkNode(nid, pos, sz))
    /\ nodeOrder' = IF nid \in DOMAIN nodes_ THEN nodeOrder
                                             ELSE <<nid>> \o nodeOrder
    /\ adjacency_list_' = IF nid \in DOMAIN adjacency_list_
                          THEN adjacency_list_
                          ELSE MapPut(adjacency_list_, nid, <<>>)
    /\ lastCall' = NoCall
    /\ UNCHANGED registryVars
    /\ UNCHANGED << algorithm_, config_, edges_, layers_, node_to_layer_, result, rounds, work, applies >>

addEdge(f, t) ==
    /\ edges_' = Append(edges_, [from |-> f, to |-> t])
    /\ LET a1 == MapPut(adjacency_list_, f,
                        Append(getNeighbors(adjacency_list_, f), t))
       IN adjacency_list_' = IF t \in DOMAIN a1 THEN a1 ELSE MapPut(a1, t, <<>>)
    /\ lastCall' = NoCall
    /\ UNCHANGED registryVars
    /\ UNCHANGED << algorithm_, config_, nodes_, nodeOrder, layers_, node_to_layer_, result,
                    rounds, work, applies >>

\* a clear that leaves the adjacency lists behind
clearKeepingAdjacency ==
    /\ nodes_' = EmptyMap
    /\ nodeOrder' = <<>>
    /\ edges_' = <<>>
    /\ lastCall' = NoCall
    /\ UNCHANGED registryVars
    /\ UNCHANGED << algorithm_, config_, adjacency_list_, layers_, node_to_layer_, result,
                    rounds, work, applies >>

clear ==
    /\ nodes_' = EmptyMap
    /\ nodeOrder' = <<>>
    /\ edges_' = <<>>
    /\ adjacency_list_' = EmptyMap
    /\ lastCall' = NoCall
    /\ UNCHANGED registryVars
    /\ UNCHANGED << algorithm_, config_, layers_, node_to_layer_, result, rounds, work, applies >>

updateNodePosition(nid, pos) ==
    /\ nodes_' = SetPosition(nodes_, nid, pos)
    /\ lastCall' = NoCall
    /\ UNCHANGED registryVars
    /\ UNCHANGED << algorithm_, config_, nodeOrder, edges_, adjacency_list_, layers_,
                    node_to_layer_, result, rounds, work, applies >>

\* ------------------------------------------------------------------------
\* Bounding box and overlap (shared helpers of the algorithms and utils)
\* ------------------------------------------------------------------------
SetMax(S) == CHOOSE m \in S : \A o \in S : o <= m

SetMin(S) == CHOOSE m \in S : \A o \in S : m <= o

calculateBoundingBox(ns) ==
    IF DOMAIN ns = {} THEN Origin
    ELSE LET minX == SetMin({ ns[i].position.x : i \in DOMAIN ns })
             minY == SetMin({ ns[i].position.y : i \in DOMAIN ns })
             maxX == SetMax({ ns[i].position.x + ns[i].size.x : i \in DOMAIN ns })
             maxY == SetMax({ ns[i].position.y + ns[i].size.y : i \in DOMAIN ns })
         IN Pt(maxX - minX, maxY - minY)

nodesOverlap(a, b, padding) ==
    ~ ( \/ a.position.x + a.size.x + padding <= b.position.x
        \/ b.position.x + b.size.x + padding <= a.position.x
        \/ a.position.y + a.size.y + padding <= b.position.y
        \/ b.position.y + b.size.y + padding <= a.position.y )

\* the pairs (it1, it2) with it2 after it1 in iteration order
PairsOf(order) ==
    { p \in (1..Len(order)) \X (1..Len(order)) : p[1] < p[2] }

countOverlaps(ns, order, padding) ==
    Cardinality({ p \in PairsOf(order) :
                    nodesOverlap(ns[order[p[1]]], ns[order[p[2]]], padding) })

\* ------------------------------------------------------------------------
\* GridLayout (GridLayout.hpp)
\* ------------------------------------------------------------------------
findMaxNodeWidth(ns) ==
    LET m == SetMax({0} \cup { ns[i].size.x : i \in DOMAIN ns })
    IN IF m > 0 THEN m ELSE DefaultNodeWidth

findMaxNodeHeight(ns) ==
    LET m == SetMax({0} \cup { ns[i].size.y : i \in DOMAIN ns })
    IN IF m > 0 THEN m ELSE DefaultNodeHeight

GridCols(n) == CeilSqrt(n)

GridRows(n) == CeilDiv(n, GridCols(n))

\* a cell sized for a default node instead of the widest node
GridCellWidthDefault(ns, config) ==
    Max(DefaultNodeWidth + config.nodeSpacing, MinCellWidth)

GridCellWidth(ns, config) ==
    Max(findMaxNodeWidth(ns) + config.nodeSpacing, MinCellWidth)

GridCellHeight(ns, config) ==
    Max(findMaxNodeHeight(ns) + config.nodeSpacing, MinCellHeight)

\* a placement that starts from the node's current position
GridPositionShifted(ns, order, cell_width, cell_height, config, index) ==
    LET node == ns[order[index + 1]]
        row == index \div GridCols(Len(order))
        col == index % GridCols(Len(order))
        cx == node.position.x + config.marginX + col * cell_width
        cy == node.position.y + config.marginY + row * cell_height
    IN Pt(cx + (cell_width - node.size.x) \div 2,
          cy + (cell_height - node.size.y) \div 2)

\* position the loop gives the node at place index (0-based) of the order
GridPosition(ns, order, cell_width, cell_height, config, index) ==
    LET node == ns[order[index + 1]]
        row == index \div GridCols(Len(order))
        col == index % GridCols(Len(order))
        cx == config.marginX + col * cell_width
        cy == config.marginY + row * cell_height
    IN Pt(cx + (cell_width - node.size.x) \div 2,
          cy + (cell_height - node.size.y) \div 2)

\* the placement loop of GridLayout::apply from place index on
RECURSIVE GridPlace(_, _, _, _, _, _)
GridPlace(ns, order, cell_width, cell_height, config, index) ==
    IF index >= Len(order) THEN ns
    ELSE GridPlace(SetPosition(ns, order[index + 1],
                               GridPosition(ns, order, cell_width, cell_height,
                                            config, index)),
                   order, cell_width, cell_height, config, index + 1)

\* GridLayout::apply as a function of the graph: new node map and result
GridApply(ns, order, config) ==
    IF DOMAIN ns = {}
    THEN [nodes |-> ns, result |-> EmptyGraphResult]
    ELSE LET n == Cardinality(DOMAIN ns)
             cw == GridCellWidth(ns, config)
             ch == GridCellHeight(ns, config)
         IN [nodes |-> GridPlace(ns, order, cw, ch, config, 0),
             result |-> SuccessResult(0,
                     Pt(GridCols(n) * cw + 2 * config.marginX,
                        GridRows(n) * ch + 2 * config.marginY))]

\* ------------------------------------------------------------------------
\* CircularLayout (GridLayout.hpp)
\* ------------------------------------------------------------------------
\* 1000*cos(2*pi*i/n) and 1000*sin(2*pi*i/n), rounded, for n in 2..6
CosSinMilli(n, i) ==
    CASE n = 2 -> << <<1000, 0>>, <<-1000, 0>> >>[i + 1]
      [] n = 3 -> << <<1000, 0>>, <<-500, 866>>, <<-500, -866>> >>[i + 1]
      [] n = 4 -> << <<1000, 0>>, <<0, 1000>>, <<-1000, 0>>, <<0, -1000>> >>[i + 1]
      [] n = 5 -> << <<1000, 0>>, <<309, 951>>, <<-809, 588>>,
                     <<-809, -588>>, <<309, -951>> >>[i + 1]
      [] n = 6 -> << <<1000, 0>>, <<500, 866>>, <<-500, 866>>,
                     <<-1000, 0>>, <<-500, -866>>, <<500, -866>> >>[i + 1]

CircleRadius(n, config) ==
    Max(TDiv(n * config.nodeSpacing * 1000, TwoPiMilli), MinRadius)

CirclePosition(ns, order, config, index) ==
    LET n == Len(order)
        node == ns[order[index + 1]]
        radius == CircleRadius(n, config)
        cs == CosSinMilli(n, index)
        px == config.marginX + radius + TDiv(radius * cs[1], 1000)
        py == config.marginY + radius + TDiv(radius * cs[2], 1000)
    IN Pt(px - node.size.x \div 2, py - node.size.y \div 2)

\* the placement loop of CircularLayout::apply from place index on
RECURSIVE CirclePlace(_, _, _, _)
CirclePlace(ns, order, config, index) ==
    IF index >= Len(order) THEN ns
    ELSE CirclePlace(SetPosition(ns, order[index + 1],
                                 CirclePosition(ns, order, config, index)),
                     order, config, index + 1)

CircularApply(ns, order, config) ==
    IF DOMAIN ns = {}
    THEN [nodes |-> ns, result |-> EmptyGraphResult]
    ELSE IF Cardinality(DOMAIN ns) = 1
    THEN [nodes |-> SetPosition(ns, ns[order[1]].id,
                                Pt(config.marginX + SingleNodeOffset,
                                   config.marginY + SingleNodeOffset)),
          result |-> SuccessResult(0,
                        Pt(2 * SingleNodeOffset + 2 * config.marginX,
                           2 * SingleNodeOffset + 2 * config.marginY))]
    ELSE LET diameter == 2 * CircleRadius(Cardinality(DOMAIN ns), config)
         IN [nodes |-> CirclePlace(ns, order, config, 0),
             result |-> SuccessResult(0, Pt(diameter + 2 * config.marginX,
                                            diameter + 2 * config.marginY))]

\* ------------------------------------------------------------------------
\* HierarchicalLayout (HierarchicalLayout.hpp)
\* ------------------------------------------------------------------------
\* iteration order of a local unordered_map with key set K: the keys in the
\* order given by h, a permutation of all ids
OrderBy(h, K) == SelectSeq(h, LAMBDA i : i \in K)

\* unordered_map::operator[] used as a read: a missing key reads as 0
MapGet(m, k) == IF k \in DOMAIN m THEN m[k] ELSE 0

\* the in-degree table built by the first two loops of assignLayers
InDegree(ns, edges) ==
    [k \in DOMAIN ns \cup { edges[i].to : i \in DOMAIN edges } |->
        Cardinality({ i \in DOMAIN edges : edges[i].to = k })]

\* a relaxation that puts the node on the layer of its predecessor
RelaxedLayerSame(old_layer, current_layer) == Max(old_layer, current_layer)

\* a relaxation that keeps the layer the node got first
RelaxedLayerFirst(old_layer, current_layer) == IF old_layer > 0 THEN old_layer ELSE current_layer + 1

\* the layer assignLayers gives edge.to when it relaxes an edge from a node
\* of layer current_layer
RelaxedLayer(old_layer, current_layer) == Max(old_layer, current_layer + 1)

\* the inner loop of assignLayers over the edges leaving current
RECURSIVE RelaxEdges(_, _, _, _)
RelaxEdges(st, edges, current, current_layer) ==
    IF edges = <<>> THEN st
    ELSE LET edge == Head(edges)
         IN IF edge.from = current
            THEN LET deg == st.in_degree[edge.to] - 1
                     st2 == [st EXCEPT
                        !.in_degree = MapPut(st.in_degree, edge.to, deg),
                        !.node_layers =
                            MapPut(st.node_layers, edge.to,
                                   RelaxedLayer(MapGet(st.node_layers, edge.to),
                                                current_layer)),
                        !.ready_nodes = IF deg = 0
                                        THEN Append(st.ready_nodes, edge.to)
                                        ELSE st.ready_nodes]
                 IN RelaxEdges(st2, Tail(edges), current, current_layer)
            ELSE RelaxEdges(st, Tail(edges), current, current_layer)

\* the while loop of assignLayers
RECURSIVE TopoLoop(_, _)
TopoLoop(st, edges) ==
    IF st.ready_nodes = <<>> THEN st
    ELSE LET current == Head(st.ready_nodes)
             current_layer == MapGet(st.node_layers, current)
             st1 == [st EXCEPT
                        !.ready_nodes = Tail(st.ready_nodes),
                        !.dequeued = Append(st.dequeued, current),
                        !.processed_nodes = st.processed_nodes + 1,
                        !.node_layers = MapPut(st.node_layers, current, current_layer),
                        !.max_layer = Max(st.max_layer, current_layer)]
         IN TopoLoop(RelaxEdges(st1, edges, current, current_layer), edges)

TopoStart(ns, edges, h) ==
    LET deg == InDegree(ns, edges)
        ready == OrderBy(h, { k \in DOMAIN deg : deg[k] = 0 })
    IN [ready_nodes |-> ready,
        in_degree |-> deg,
        node_layers |-> [k \in Range(ready) |-> 0],
        dequeued |-> <<>>,
        processed_nodes |-> 0,
        max_layer |-> 0]

\* a cycle test that accepts a sweep that processed too few nodes
TopoCompleteLoose(st, ns) == st.processed_nodes <= Cardinality(DOMAIN ns)

\* the cycle test of assignLayers
TopoComplete(st, ns) == st.processed_nodes = Cardinality(DOMAIN ns)

\* the last loop of assignLayers: every key of node_layers, in the iteration
\* order of the map, is pushed on its layer
RECURSIVE OrganizeLayers(_, _, _)
OrganizeLayers(layers, order, node_layers) ==
    IF order = <<>> THEN layers
    ELSE LET layer == node_layers[Head(order)]
         IN OrganizeLayers(IF layer + 1 \in DOMAIN layers
                           THEN [layers EXCEPT ![layer + 1] = Append(@, Head(order))]
                           ELSE layers,
                           Tail(order), node_layers)

\* assignLayers: [ok, layers, node_to_layer, dequeued], dequeued being the ids
\* the while loop took from ready_nodes, in order.  With edges that leave or reach
\* ids that are no nodes, the sweep can pass the cycle test while a relaxed,
\* unprocessed id holds a layer number above max_layer; layers_[layer] is
\* then written out of range.  The model lets that write hit no layer (the
\* id is on no layer); a run that stops there is a behaviour that takes no
\* further step.
assignLayers(ns, edges, h) ==
    Only({ IF ~ TopoComplete(st, ns)
           THEN [ok |-> FALSE, layers |-> <<>>, node_to_layer |-> EmptyMap,
                 dequeued |-> st.dequeued]
           ELSE [ok |-> TRUE, dequeued |-> st.dequeued,
                 layers |-> OrganizeLayers([l \in 1..(st.max_layer + 1) |-> <<>>],
                                           OrderBy(h, DOMAIN st.node_layers),
                                           st.node_layers),
                 node_to_layer |-> st.node_layers] :
           st \in { TopoLoop(TopoStart(ns, edges, h), edges) } })

IndexOf(s, e) == CHOOSE k \in 1..Len(s) : s[k] = e

\* calculateBarycenter as the fraction <<sum_positions, count>>; <<0, 1>>
\* when count is 0.  layers is 1-based, layer numbers are 0-based.
calculateBarycenter(layers, ntl, edges, node_id, forward) ==
    LET current_layer == MapGet(ntl, node_id)
        other == IF forward THEN current_layer - 1 ELSE current_layer + 1
        active == IF forward THEN current_layer > 0
                             ELSE current_layer + 1 < Len(layers)
        hits == IF ~ active THEN {}
                ELSE { i \in DOMAIN edges :
                        LET here == IF forward THEN edges[i].to ELSE edges[i].from
                            there == IF forward THEN edges[i].from ELSE edges[i].to
                        IN /\ here = node_id
                           /\ MapGet(ntl, there) = other
                           /\ there \in Range(layers[other + 1]) }
        RECURSIVE SumIdx(_)
        SumIdx(S) == IF S = {} THEN 0
                     ELSE LET i == CHOOSE j \in S : TRUE
                              there == IF forward THEN edges[i].from ELSE edges[i].to
                          IN (IndexOf(layers[other + 1], there) - 1) + SumIdx(S \ {i})
    IN IF hits = {} THEN <<0, 1>> ELSE << SumIdx(hits), Cardinality(hits) >>

\* keys that calculateBarycenter reads with node_to_layer_[...] for node_id
BarycenterReads(layers, ntl, edges, node_id, forward) ==
    LET current_layer == MapGet(ntl, node_id)
        active == IF forward THEN current_layer > 0
                             ELSE current_layer + 1 < Len(layers)
    IN {node_id} \cup
       IF ~ active THEN {}
       ELSE IF forward
            THEN { edges[i].from : i \in { j \in DOMAIN edges : edges[j].to = node_id } }
            ELSE { edges[i].to : i \in { j \in DOMAIN edges : edges[j].from = node_id } }

\* an order of the pairs that looks at the ids only
PairLessById(b1, id1, b2, id2) == id1 < id2

\* operator< of std::pair<T, NodeId> on barycenters kept as fractions
PairLess(b1, id1, b2, id2) ==
    \/ b1[1] * b2[2] < b2[1] * b1[2]
    \/ (b1[1] * b2[2] = b2[1] * b1[2] /\ id1 < id2)

\* the loop of reorderLayer that fills barycenters: the pairs
\* (barycenter, id) of the nodes of the layer, in their order
RECURSIVE Barycenters(_, _, _, _, _)
Barycenters(layers, ntl, edges, nodes, forward) ==
    IF nodes = <<>> THEN <<>>
    ELSE << << calculateBarycenter(layers, ntl, edges, Head(nodes), forward),
               Head(nodes) >> >>
         \o Barycenters(layers, ntl, edges, Tail(nodes), forward)

\* pair put at its place in the sorted sequence of pairs
RECURSIVE InsertPair(_, _)
InsertPair(sorted, pair) ==
    IF sorted = <<>> THEN << pair >>
    ELSE IF PairLess(pair[1], pair[2], Head(sorted)[1], Head(sorted)[2])
         THEN << pair >> \o sorted
         ELSE << Head(sorted) >> \o InsertPair(Tail(sorted), pair)

\* std::sort of the (barycenter, id) pairs of one layer; the ids are
\* distinct, so the order of the pairs is total and the result is unique
RECURSIVE SortLayer(_)
SortLayer(barycenters) ==
    IF barycenters = <<>> THEN <<>>
    ELSE InsertPair(SortLayer(Tail(barycenters)), Head(barycenters))

\* the loop of reorderLayer that refills layer.nodes from the sorted pairs
RECURSIVE NodesOf(_)
NodesOf(barycenters) ==
    IF barycenters = <<>> THEN <<>>
    ELSE << Head(barycenters)[2] >> \o NodesOf(Tail(barycenters))

\* reorderLayer: [layers, node_to_layer, changed]
reorderLayer(layers, ntl, edges, layer_idx, forward) ==
    IF layer_idx >= Len(layers) \/ Len(layers[layer_idx + 1]) <= 1
    THEN [layers |-> layers, node_to_layer |-> ntl, changed |-> FALSE]
    ELSE LET original_order == layers[layer_idx + 1]
             reads == UNION { BarycenterReads(layers, ntl, edges, n, forward) :
                                n \in Range(original_order) }
         IN Only({ [layers |-> [layers EXCEPT ![layer_idx + 1] = sorted],
                    node_to_layer |-> IF reads \subseteq DOMAIN ntl THEN ntl
                                      ELSE [k \in DOMAIN ntl \cup reads |-> MapGet(ntl, k)],
                    changed |-> original_order # sorted] :
                   sorted \in { NodesOf(SortLayer(Barycenters(layers, ntl, edges,
                                                              original_order, forward))) } })

\* the forward loop of reduceCrossings from layer upward
RECURSIVE ForwardPass(_, _, _)
ForwardPass(st, edges, layer) ==
    IF layer >= Len(st.layers) THEN st
    ELSE Only({ ForwardPass([layers |-> r.layers, node_to_layer |-> r.node_to_layer,
                             changed |-> st.changed \/ r.changed,
                             reorders |-> Append(st.reorders,
                                 Reordered(layer, TRUE, st.layers, r.layers))],
                            edges, layer + 1) :
                r \in { reorderLayer(st.layers, st.node_to_layer, edges, layer, TRUE) } })

\* the backward loop of reduceCrossings from layer downward; the loop ends
\* when the size_t counter wraps below 0
RECURSIVE BackwardPass(_, _, _)
BackwardPass(st, edges, layer) ==
    IF layer < 0 THEN st
    ELSE Only({ BackwardPass([layers |-> r.layers, node_to_layer |-> r.node_to_layer,
                              changed |-> st.changed \/ r.changed,
                              reorders |-> Append(st.reorders,
                                  Reordered(layer, FALSE, st.layers, r.layers))],
                             edges, layer - 1) :
                r \in { reorderLayer(st.layers, st.node_to_layer, edges, layer, FALSE) } })

\* static_cast<size_t>(config.iterations / 4)
CrossingRounds(config) == config.iterations \div (CrossingShare * IterUnit)

\* reduceCrossings from round iter on: [layers, node_to_layer, sweeps,
\* reorders], sweeps counting the bodies of the outer loop that ran and
\* reorders listing the calls of reorderLayer
RECURSIVE reduceCrossings(_, _, _, _, _)
reduceCrossings(layers, ntl, edges, iter, max_iterations) ==
    IF iter >= max_iterations
    THEN [layers |-> layers, node_to_layer |-> ntl, sweeps |-> iter, reorders |-> <<>>]
    ELSE LET s0 == [layers |-> layers, node_to_layer |-> ntl, changed |-> FALSE,
                    reorders |-> <<>>]
         IN Only({ IF ~ s2.changed
                   THEN [layers |-> s2.layers, node_to_layer |-> s2.node_to_layer,
                         sweeps |-> iter + 1, reorders |-> s2.reorders]
                   ELSE Only({ [rest EXCEPT !.reorders = s2.reorders \o rest.reorders] :
                               rest \in { reduceCrossings(s2.layers, s2.node_to_layer,
                                                          edges, iter + 1,
                                                          max_iterations) } }) :
                   s2 \in { BackwardPass(ForwardPass(s0, edges, 1), edges,
                                         Len(layers) - 2) } })

findMaxNodeHeightInLayer(ns, layer) ==
    LET m == SetMax({0} \cup { ns[i].size.y : i \in Range(layer) \cap DOMAIN ns })
    IN IF m > 0 THEN m ELSE DefaultNodeHeight

\* the inner loop of assignCoordinates over one layer
RECURSIVE PlaceLayer(_, _, _, _, _)
PlaceLayer(ns, layer, current_x, current_y, config) ==
    IF layer = <<>> THEN ns
    ELSE LET node_id == Head(layer)
         IN IF node_id \in DOMAIN ns
            THEN PlaceLayer(SetPosition(ns, node_id, Pt(current_x, current_y)),
                            Tail(layer),
                            current_x + ns[node_id].size.x + config.nodeSpacing,
                            current_y, config)
            ELSE PlaceLayer(ns, Tail(layer), current_x, current_y, config)

\* the outer loop of assignCoordinates
RECURSIVE assignCoordinates(_, _, _, _, _)
assignCoordinates(ns, layers, layer_idx, current_y, config) ==
    IF layer_idx >= Len(layers) THEN ns
    ELSE LET layer == layers[layer_idx + 1]
         IN Only({ assignCoordinates(placed, layers, layer_idx + 1,
                        current_y + findMaxNodeHeightInLayer(placed, layer)
                                  + config.layerSpacing,
                        config) :
                   placed \in { PlaceLayer(ns, layer, config.marginX,
                                           current_y, config) } })

CycleMessage == "Graph contains cycles - not suitable for hierarchical layout"

\* an apply that writes the coordinates of the nodes its sweep has processed
\* before it tests for a cycle
HierarchicalApplyEager(ns, edges, config, h, oldLayers, oldNtl) ==
    IF DOMAIN ns = {}
    THEN [nodes |-> ns, layers |-> oldLayers, node_to_layer |-> oldNtl,
          work |-> NoWork, result |-> EmptyGraphResult]
    ELSE LET al == assignLayers(ns, edges, h)
         IN IF ~ al.ok
            THEN [nodes |-> PlaceLayer(ns, al.dequeued, config.marginX,
                                       config.marginY, config),
                  layers |-> al.layers,
                  node_to_layer |-> al.node_to_layer,
                  work |-> Work(al.dequeued, 0, <<>>, 0),
                  result |-> [EmptyResult EXCEPT !.errorMessage = CycleMessage]]
            ELSE Only({ Only({
                    [nodes |-> placed, layers |-> rc.layers,
                     node_to_layer |-> rc.node_to_layer,
                     work |-> Work(al.dequeued, rc.sweeps, rc.reorders, 0),
                     result |-> SuccessResult(0, calculateBoundingBox(placed))] :
                    placed \in { assignCoordinates(ns, rc.layers, 0,
                                                   config.marginY, config) } }) :
                    rc \in { reduceCrossings(al.layers, al.node_to_layer, edges,
                                             0, CrossingRounds(config)) } })

\* HierarchicalLayout::apply: new node map, instance fields and result
HierarchicalApply(ns, edges, config, h, oldLayers, oldNtl) ==
    IF DOMAIN ns = {}
    THEN [nodes |-> ns, layers |-> oldLayers, node_to_layer |-> oldNtl,
          work |-> NoWork, result |-> EmptyGraphResult]
    ELSE LET al == assignLayers(ns, edges, h)
         IN IF ~ al.ok
            THEN [nodes |-> ns, layers |-> al.layers,
                  node_to_layer |-> al.node_to_layer,
                  work |-> Work(al.dequeued, 0, <<>>, 0),
                  result |-> [EmptyResult EXCEPT !.errorMessage = CycleMessage]]
            ELSE Only({ Only({
                    [nodes |-> placed, layers |-> rc.layers,
                     node_to_layer |-> rc.node_to_layer,
                     work |-> Work(al.dequeued, rc.sweeps, rc.reorders, 0),
                     result |-> SuccessResult(0, calculateBoundingBox(placed))] :
                    placed \in { assignCoordinates(ns, rc.layers, 0,
                                                   config.marginY, config) } }) :
                    rc \in { reduceCrossings(al.layers, al.node_to_layer, edges,
                                             0, CrossingRounds(config)) } })

\* ------------------------------------------------------------------------
\* ForceDirectedLayout (ForceDirectedLayout.hpp)
\* ------------------------------------------------------------------------
\* The generator rng_ is modelled by a tape of draws chosen when apply is
\* called and read cyclically; a draw u in 0..RandSteps-1 stands for the
\* fraction u/RandSteps of the distribution's interval.
Tapes == [1..TapeLen -> 0..(RandSteps - 1)]

Draw(tape, di) == tape[(di % Len(tape)) + 1]

\* std::uniform_real_distribution<T>(a, b) for the draw u
Uniform(a, b, u) == a + TDiv((b - a) * u, RandSteps)

\* ForceVector::magnitude and Point::magnitude
Magnitude(vx, vy) ==
    IF Max(Abs(vx), Abs(vy)) > 20000
    THEN 64 * ISqrt(TDiv(vx, 64) * TDiv(vx, 64) + TDiv(vy, 64) * TDiv(vy, 64))
    ELSE ISqrt(vx * vx + vy * vy)

\* Node::center
Center(node) ==
    Pt(node.position.x + node.size.x \div 2, node.position.y + node.size.y \div 2)

\* v.normalized() * m, where mag is the magnitude of v
Scaled(v, mag, m) ==
    IF mag = 0 THEN Origin ELSE Pt(TDiv(v.x * m, mag), TDiv(v.y * m, mag))

RECURSIVE initializePositions(_, _, _, _, _)
initializePositions(ns, order, config, tape, di) ==
    IF order = <<>> THEN [nodes |-> ns, di |-> di]
    ELSE LET nid == Head(order)
         IN IF ns[nid].position = Origin
            THEN initializePositions(
                    SetPosition(ns, nid,
                        Pt(Uniform(config.marginX, config.marginX + RandomExtent,
                                   Draw(tape, di)),
                           Uniform(config.marginY, config.marginY + RandomExtent,
                                   Draw(tape, di + 1)))),
                    Tail(order), config, tape, di + 2)
            ELSE initializePositions(ns, Tail(order), config, tape, di)

calculateOptimalEdgeLength(ns, config) ==
    LET node_count == Cardinality(DOMAIN ns)
    IN IF node_count <= 1 THEN config.nodeSpacing
       ELSE LET area == node_count * config.nodeSpacing * config.nodeSpacing
                side_length == ISqrt(area)
            IN Max(config.nodeSpacing,
                   TDiv(side_length * 1000, ISqrt(node_count * 1000000)))

\* p - q
Delta(p, q) == Pt(p.x - q.x, p.y - q.y)

\* force the pair (a, b) puts on a in calculateRepulsiveForces
RepulsiveForce(ns, a, b, optimal_edge_length) ==
    LET delta == Delta(Center(ns[a]), Center(ns[b]))
    IN Only({ IF distance > 0 /\ distance < optimal_edge_length * RepulsionRange
              THEN Scaled(delta, distance,
                          TDiv(optimal_edge_length * optimal_edge_length,
                               distance * distance))
              ELSE Origin :
              distance \in { Magnitude(delta.x, delta.y) } })

\* force edge puts on edge.from in calculateAttractiveForces; edges with a
\* missing endpoint are skipped
AttractiveForce(ns, edge, optimal_edge_length) ==
    IF edge.from \notin DOMAIN ns \/ edge.to \notin DOMAIN ns THEN Origin
    ELSE LET delta == Delta(Center(ns[edge.to]), Center(ns[edge.from]))
         IN Only({ IF distance > 0
                   THEN Scaled(delta, distance,
                               TDiv(distance * distance, optimal_edge_length))
                   ELSE Origin :
                   distance \in { Magnitude(delta.x, delta.y) } })

RECURSIVE SumPoints(_)
SumPoints(s) ==
    IF s = <<>> THEN Origin
    ELSE LET r == SumPoints(Tail(s))
         IN Pt(Head(s).x + r.x, Head(s).y + r.y)

Negated(p) == Pt(0 - p.x, 0 - p.y)

\* the forces table after calculateRepulsiveForces and
\* calculateAttractiveForces
Forces(ns, order, edges, optimal_edge_length) ==
    [v \in DOMAIN ns |->
        SumPoints(
            [k \in 1..Len(order) |->
                IF order[k] = v THEN Origin
                ELSE RepulsiveForce(ns, v, order[k], optimal_edge_length)]
            \o
            [i \in 1..Len(edges) |->
                LET f == AttractiveForce(ns, edges[i], optimal_edge_length)
                IN IF edges[i].from = v THEN f
                   ELSE IF edges[i].to = v THEN Negated(f)
                   ELSE Origin])]

\* the displacement applyForces gives a node under force: its magnitude dm,
\* limited by the temperature, and the vector d
Displacement(force, temperature) ==
    Only({ [dm |-> Min(mag, temperature),
            d |-> Scaled(force, mag, Min(mag, temperature))] :
           mag \in { Magnitude(force.x, force.y) } })

\* applyForces: [nodes, max_displacement]
applyForces(ns, forces, temperature) ==
    Only({ [nodes |->
               [v \in DOMAIN ns |->
                   IF moves[v].dm > 0
                   THEN [ns[v] EXCEPT !.position = Pt(ns[v].position.x + moves[v].d.x,
                                                      ns[v].position.y + moves[v].d.y)]
                   ELSE ns[v]],
            max_displacement |-> SetMax({0} \cup { moves[v].dm : v \in DOMAIN ns })] :
           moves \in { [v \in DOMAIN ns |-> Displacement(forces[v], temperature)] } })

\* a limit rounded up instead of truncated
MaxIterationsCeil(config) == (config.iterations + IterUnit - 1) \div IterUnit

\* static_cast<size_t>(config.iterations)
MaxIterations(config) == config.iterations \div IterUnit

\* one pass of the loop of simulateForces on the loop state st =
\* [nodes, temperature, iteration, rounds, done]: the loop body, and the
\* increment unless the body left by break; rounds counts the bodies run
SimulateRound(st, order, edges, config, optimal_edge_length) ==
    IF st.done \/ st.iteration >= MaxIterations(config)
    THEN [st EXCEPT !.done = TRUE]
    ELSE Only({ [nodes |-> moved.nodes,
                 temperature |-> Max(MinTemperature,
                                     TDiv(st.temperature * CoolingPercent, 100)),
                 iteration |-> IF moved.max_displacement < config.convergenceThreshold
                               THEN st.iteration ELSE st.iteration + 1,
                 rounds |-> st.rounds + 1,
                 done |-> moved.max_displacement < config.convergenceThreshold] :
                moved \in { applyForces(st.nodes, forces, st.temperature) :
                             forces \in { Forces(st.nodes, order, edges,
                                                 optimal_edge_length) } } })

\* n passes of the loop, computed as two halves so that the evaluation
\* nests to a depth of log n
RECURSIVE SimulateRounds(_, _, _, _, _, _)
SimulateRounds(st, order, edges, config, optimal_edge_length, n) ==
    IF n <= 0 \/ st.done THEN st
    ELSE IF n = 1 THEN SimulateRound(st, order, edges, config, optimal_edge_length)
    ELSE Only({ SimulateRounds(half, order, edges, config, optimal_edge_length,
                               n - n \div 2) :
                half \in { SimulateRounds(st, order, edges, config,
                                          optimal_edge_length, n \div 2) } })

\* simulateForces from round iteration on: [nodes, iteration, rounds], where
\* iteration is the value returned and rounds counts the loop bodies run
simulateForces(ns, order, edges, config, optimal_edge_length, temperature, iteration, executed) ==
    Only({ [nodes |-> st.nodes, iteration |-> st.iteration, rounds |-> st.rounds] :
           st \in { SimulateRounds([nodes |-> ns, temperature |-> temperature,
                                    iteration |-> iteration, rounds |-> executed,
                                    done |-> FALSE],
                                   order, edges, config, optimal_edge_length,
                                   MaxIterations(config) - iteration) } })

\* separateNodes: [nodes, di]
separateNodes(ns, id1, id2, min_separation, tape, di) ==
    LET node1 == ns[id1]
        node2 == ns[id2]
        delta0 == Delta(Center(node1), Center(node2))
        coincide == delta0 = Origin
        delta == IF coincide
                 THEN Pt(Uniform(0 - min_separation, min_separation, Draw(tape, di)),
                         Uniform(0 - min_separation, min_separation, Draw(tape, di + 1)))
                 ELSE delta0
        required_distance == (node1.size.x + node2.size.x) \div 2 + min_separation
        di2 == IF coincide THEN di + 2 ELSE di
    IN Only({ IF distance > 0
              THEN LET sv == Scaled(delta, distance,
                                    TDiv(required_distance - distance, 2))
                   IN [nodes |->
                          [ns EXCEPT ![id1].position = Pt(node1.position.x + sv.x,
                                                          node1.position.y + sv.y),
                                     ![id2].position = Pt(node2.position.x - sv.x,
                                                          node2.position.y - sv.y)],
                       di |-> di2]
              ELSE [nodes |-> ns, di |-> di2] :
              distance \in { Magnitude(delta.x, delta.y) } })

\* the nested loops of one pass of removeOverlaps from the pair of places
\* (i, j) on, i < j: [nodes, di, had]
RECURSIVE OverlapPass(_, _, _, _, _, _)
OverlapPass(st, order, i, j, min_separation, tape) ==
    IF i >= Len(order) THEN st
    ELSE IF j > Len(order)
    THEN OverlapPass(st, order, i + 1, i + 2, min_separation, tape)
    ELSE IF nodesOverlap(st.nodes[order[i]], st.nodes[order[j]], min_separation)
    THEN Only({ OverlapPass([nodes |-> r.nodes, di |-> r.di, had |-> TRUE,
                             separated |-> Append(st.separated,
                                 Separated(order[i], order[j], st.nodes, r.nodes))],
                            order, i, j + 1, min_separation, tape) :
                r \in { separateNodes(st.nodes, order[i], order[j], min_separation,
                                      tape, st.di) } })
    ELSE OverlapPass(st, order, i, j + 1, min_separation, tape)

\* removeOverlaps from pass iter on: [nodes, di, passes]
RECURSIVE removeOverlaps(_, _, _, _, _, _)
removeOverlaps(ns, order, config, tape, di, iter) ==
    IF iter >= MaxOverlapIterations
    THEN [nodes |-> ns, di |-> di, passes |-> iter, separated |-> <<>>]
    ELSE Only({ IF ~ r.had
                THEN [nodes |-> r.nodes, di |-> r.di, passes |-> iter + 1,
                      separated |-> <<>>]
                ELSE [removeOverlaps(r.nodes, order, config, tape, r.di, iter + 1)
                        EXCEPT !.separated = r.separated \o @] :
                r \in { OverlapPass([nodes |-> ns, di |-> di, had |-> FALSE,
                                     separated |-> <<>>], order,
                                    1, 2, config.nodeSpacing \div 2, tape) } })

\* ForceDirectedLayout::apply: new node map, result and rounds run
ForceDirectedApply(ns, order, edges, config, tape) ==
    IF DOMAIN ns = {}
    THEN [nodes |-> ns, rounds |-> 0, passes |-> 0, separated |-> <<>>,
          result |-> EmptyGraphResult]
    ELSE Only({ Only({ Only({
            [nodes |-> clean.nodes, rounds |-> sim.rounds, passes |-> clean.passes,
             separated |-> clean.separated,
             result |-> SuccessResult(sim.iteration,
                                      calculateBoundingBox(clean.nodes))] :
            clean \in { removeOverlaps(sim.nodes, order, config, tape,
                                       init.di, 0) } }) :
            sim \in { simulateForces(init.nodes, order, edges, config,
                                     optimal_edge_length, optimal_edge_length,
                                     0, 0) :
                      optimal_edge_length \in
                          { calculateOptimalEdgeLength(init.nodes, config) } } }) :
            init \in { initializePositions(ns, order, config, tape, 0) } })

\* ------------------------------------------------------------------------
\* LayoutRegistry and the constructors of Layout (Layout.hpp)
\* ------------------------------------------------------------------------
\* An algorithm instance is held as the name its getName() returns; Null is
\* the empty unique_ptr, NoLayout the absence of a Layout object.
Null == "null"

NoLayout == "no layout"

RegistryNames == AlgorithmNames \cup {"custom"}

RegistryCalled(op, name, returned, thrown) ==
    [op |-> op, name |-> name, returned |-> returned, thrown |-> thrown]

\* thrown is the message of the exception the call threw, <<>> for none
NoRegistryCall == RegistryCalled("none", "", Null, <<>>)

\* LayoutRegistry::create as a function of the factory table
create(fs, name) == IF name \in DOMAIN fs THEN fs[name] ELSE Null

\* LayoutRegistry::registerAlgorithm<AlgorithmType>(name)
registerAlgorithm(algorithmType, name) ==
    /\ factories' = MapPut(factories, name, algorithmType)
    /\ registryCall' = RegistryCalled("registerAlgorithm", name, Null, <<>>)
    /\ UNCHANGED << algorithm_, config_, nodes_, nodeOrder, edges_, adjacency_list_,
                    layers_, node_to_layer_, result, lastCall, rounds, work, applies,
                    observed >>

\* a call of LayoutRegistry::create by the caller
createInstance(name) ==
    /\ registryCall' = RegistryCalled("create", name, create(factories, name), <<>>)
    /\ UNCHANGED << algorithm_, config_, nodes_, nodeOrder, edges_, adjacency_list_,
                    layers_, node_to_layer_, result, lastCall, rounds, work, applies,
                    factories, observed >>

UnknownMessage(algorithmName) == << "Unknown layout algorithm: ", algorithmName >>

NullMessage == << "Layout algorithm cannot be null" >>

\* a constructor that keeps whatever it was given
ConstructedSilently(algorithm, message) == [algorithm |-> algorithm, thrown |-> <<>>]

\* the end of both constructors: an empty algorithm_ throws, and the object
\* does not come to exist
Constructed(algorithm, message) ==
    IF algorithm = Null THEN [algorithm |-> NoLayout, thrown |-> message]
                        ELSE [algorithm |-> algorithm, thrown |-> <<>>]

\* Layout::Layout(const std::string& algorithmName)
LayoutFromName(algorithmName) ==
    /\ LET c == Constructed(create(factories, algorithmName),
                            UnknownMessage(algorithmName))
       IN /\ algorithm_' = c.algorithm
          /\ registryCall' = RegistryCalled("Layout", algorithmName,
                                            create(factories, algorithmName), c.thrown)
    /\ UNCHANGED << config_, nodes_, nodeOrder, edges_, adjacency_list_,
                    layers_, node_to_layer_, result, lastCall, rounds, work, applies,
                    factories, observed >>

\* Layout::Layout(std::unique_ptr<LayoutAlgorithm<double>> algorithm)
LayoutFromInstance(algorithm) ==
    /\ LET c == Constructed(algorithm, NullMessage)
       IN /\ algorithm_' = c.algorithm
          /\ registryCall' = RegistryCalled("Layout", "", algorithm, c.thrown)
    /\ UNCHANGED << config_, nodes_, nodeOrder, edges_, adjacency_list_,
                    layers_, node_to_layer_, result, lastCall, rounds, work, applies,
                    factories, observed >>

\* ------------------------------------------------------------------------
\* The apply calls as actions on the graph
\* ------------------------------------------------------------------------
HashOrders == { h \in [1..MaxId -> Ids] : \A i, j \in 1..MaxId : h[i] = h[j] => i = j }

Called(name, tape, h) == [op |-> name, tape |-> tape, hashOrder |-> h]

\* Layout::apply delegates to the wrapped algorithm with config_
applyGrid ==
    /\ algorithm_ = "grid"
    /\ LET r == GridApply(nodes_, nodeOrder, config_)
       IN /\ nodes_' = r.nodes
          /\ result' = r.result
    /\ lastCall' = Called("grid", <<>>, <<>>)
    /\ applies' = applies + 1
    /\ UNCHANGED registryVars
    /\ UNCHANGED observed
    /\ UNCHANGED << algorithm_, config_, nodeOrder, edges_, adjacency_list_,
                    layers_, node_to_layer_, rounds, work >>

applyCircular ==
    /\ algorithm_ = "circular"
    /\ LET r == CircularApply(nodes_, nodeOrder, config_)
       IN /\ nodes_' = r.nodes
          /\ result' = r.result
    /\ lastCall' = Called("circular", <<>>, <<>>)
    /\ applies' = applies + 1
    /\ UNCHANGED registryVars
    /\ UNCHANGED observed
    /\ UNCHANGED << algorithm_, config_, nodeOrder, edges_, adjacency_list_,
                    layers_, node_to_layer_, rounds, work >>

\* no edge of the graph attracts: an end of it is no node, or its ends have
\* the same center
NoAttraction(ns, edges) ==
    \A i \in DOMAIN edges :
        IF edges[i].from \in DOMAIN ns /\ edges[i].to \in DOMAIN ns
        THEN Center(ns[edges[i].from]) = Center(ns[edges[i].to])
        ELSE TRUE

\* with nodeSpacing = 0 the optimal edge length is 0 and the attraction of
\* an edge divides by it; the model covers nodeSpacing > 0, and nodeSpacing = 0
\* on graphs where no edge attracts once the positions are initialized (with
\* optimal edge length 0 nothing repels and the temperature is 0, so no node
\* moves in the simulation)
applyForceDirected(tape) ==
    /\ algorithm_ = "force_directed"
    /\ IF config_.nodeSpacing > 0 THEN TRUE
       ELSE NoAttraction(initializePositions(nodes_, nodeOrder, config_, tape, 0).nodes,
                         edges_)
    /\ LET r == ForceDirectedApply(nodes_, nodeOrder, edges_, config_, tape)
       IN /\ nodes_' = r.nodes
          /\ result' = r.result
          /\ rounds' = r.rounds
          /\ work' = [Work(<<>>, 0, <<>>, r.passes) EXCEPT !.separated = r.separated]
    /\ lastCall' = Called("force_directed", tape, <<>>)
    /\ applies' = applies + 1
    /\ UNCHANGED registryVars
    /\ UNCHANGED observed
    /\ UNCHANGED << algorithm_, config_, nodeOrder, edges_, adjacency_list_,
                    layers_, node_to_layer_ >>

applyHierarchical(h) ==
    /\ algorithm_ = "hierarchical"
    /\ LET r == HierarchicalApply(nodes_, edges_, config_, h, layers_, node_to_layer_)
       IN /\ nodes_' = r.nodes
          /\ result' = r.result
          /\ layers_' = r.layers
          /\ node_to_layer_' = r.node_to_layer
          /\ work' = r.work
    /\ lastCall' = Called("hierarchical", <<>>, h)
    /\ applies' = applies + 1
    /\ UNCHANGED registryVars
    /\ UNCHANGED observed
    /\ UNCHANGED << algorithm_, config_, nodeOrder, edges_, adjacency_list_, rounds >>

NoAlgorithmMessage == "No layout algorithm set"

\* Layout::apply on a graph without nodes: the result of the null check, or
\* of the early return every algorithm takes for nodeCount() == 0
applyToEmptyGraph ==
    /\ algorithm_ # NoLayout
    /\ nodeCount = 0
    /\ result' = IF algorithm_ = Null
                 THEN [EmptyResult EXCEPT !.errorMessage = NoAlgorithmMessage]
                 ELSE EmptyGraphResult
    /\ lastCall' = Called(IF algorithm_ = Null THEN "none" ELSE algorithm_, <<>>, <<>>)
    /\ applies' = applies + 1
    /\ UNCHANGED registryVars
    /\ UNCHANGED observed
    /\ UNCHANGED << algorithm_, config_, nodes_, nodeOrder, edges_, adjacency_list_,
                    layers_, node_to_layer_, rounds, work >>

\* ------------------------------------------------------------------------
\* utils::centerGraph and utils::scaleToFit (Layout.hpp)
\* ------------------------------------------------------------------------
\* the bounds the first loop of centerGraph finds
BoundsOf(ns) ==
    [minX |-> SetMin({ ns[i].position.x : i \in DOMAIN ns }),
     minY |-> SetMin({ ns[i].position.y : i \in DOMAIN ns }),
     maxX |-> SetMax({ ns[i].position.x + ns[i].size.x : i \in DOMAIN ns }),
     maxY |-> SetMax({ ns[i].position.y + ns[i].size.y : i \in DOMAIN ns })]

\* an offset that is the low bound, not the middle
CenterOfLow(lo, hi) == lo

\* (max + min) / 2
CenterOf(lo, hi) == TDiv(hi + lo, 2)

\* the node map centerGraph leaves
CenterNodes(ns) ==
    IF DOMAIN ns = {} THEN ns
    ELSE LET b == BoundsOf(ns)
             centerX == CenterOf(b.minX, b.maxX)
             centerY == CenterOf(b.minY, b.maxY)
         IN [k \in DOMAIN ns |->
               [ns[k] EXCEPT !.position = Pt(ns[k].position.x - centerX,
                                             ns[k].position.y - centerY)]]

\* halving is exact for a double; the model covers the graphs for which it
\* is exact on the integer grid as well
HalvesExactly(ns) ==
    IF DOMAIN ns = {} THEN TRUE
    ELSE LET b == BoundsOf(ns)
         IN (b.maxX + b.minX) % 2 = 0 /\ (b.maxY + b.minY) % 2 = 0

centerGraph ==
    /\ HalvesExactly(nodes_)
    /\ nodes_' = CenterNodes(nodes_)
    /\ lastCall' = Called("centerGraph", <<>>, <<>>)
    /\ applies' = applies + 1
    /\ UNCHANGED registryVars
    /\ UNCHANGED observed
    /\ UNCHANGED << algorithm_, config_, nodeOrder, edges_, adjacency_list_,
                    layers_, node_to_layer_, result, rounds, work >>

\* std::min(scaleX, scaleY) as the fraction << numerator, denominator >>
FitScale(bounds, availableWidth, availableHeight) ==
    IF availableWidth * bounds.y <= availableHeight * bounds.x
    THEN << availableWidth, bounds.x >>
    ELSE << availableHeight, bounds.y >>

\* the node map scaleToFit leaves
ScaledNodes(ns, targetWidth, targetHeight, margin) ==
    IF DOMAIN ns = {} THEN ns
    ELSE LET bounds == calculateBoundingBox(ns)
         IN IF bounds.x <= 0 \/ bounds.y <= 0 THEN ns
            ELSE LET scale == FitScale(bounds, targetWidth - 2 * margin,
                                       targetHeight - 2 * margin)
                 IN [k \in DOMAIN ns |->
                       [ns[k] EXCEPT !.position =
                           Pt(TDiv(ns[k].position.x * scale[1], scale[2]) + margin,
                              TDiv(ns[k].position.y * scale[1], scale[2]) + margin)]]

scaleToFit(targetWidth, targetHeight, margin) ==
    /\ nodes_' = ScaledNodes(nodes_, targetWidth, targetHeight, margin)
    /\ lastCall' = Called("scaleToFit", <<>>, <<>>)
    /\ applies' = applies + 1
    /\ UNCHANGED registryVars
    /\ UNCHANGED observed
    /\ UNCHANGED << algorithm_, config_, nodeOrder, edges_, adjacency_list_,
                    layers_, node_to_layer_, result, rounds, work >>

\* ------------------------------------------------------------------------
\* Specifications.  A behaviour is the life of one Layout object and one
\* graph: the caller populates the graph, then calls apply (in SpecGrid,
\* repeatedly), and may clear the graph.
\* ------------------------------------------------------------------------
InitWith(names) ==
    /\ algorithm_ \in names
    /\ config_ \in Configs
    /\ nodes_ = EmptyMap
    /\ nodeOrder = <<>>
    /\ edges_ = <<>>
    /\ adjacency_list_ = EmptyMap
    /\ layers_ = <<>>
    /\ node_to_layer_ = EmptyMap
    /\ result = EmptyResult
    /\ lastCall = NoCall
    /\ rounds = 0
    /\ work = NoWork
    /\ applies = 0
    /\ factories = EmptyMap
    /\ registryCall = NoRegistryCall
    /\ observed = NoObservation

Init == InitWith(AlgorithmNames)

\* Spec: every operation, on graphs of at most SmallMaxNodes nodes; the
\* caller adds default nodes, Node(id), and moves them
AddNodeStep ==
    /\ applies = 0
    /\ \E nid \in Ids :
          /\ nid \in DOMAIN nodes_ \/ nodeCount < SmallMaxNodes
          /\ addNode(nid, Origin, Pt(DefaultNodeWidth, DefaultNodeHeight))
    /\ UNCHANGED observed

AddEdgeStep ==
    /\ applies = 0
    /\ Len(edges_) < SmallMaxEdges
    /\ \E f \in Ids, t \in Ids : addEdge(f, t)
    /\ UNCHANGED observed

UpdateStep ==
    /\ applies = 0
    /\ \E nid \in Ids, pos \in StartPositions : updateNodePosition(nid, pos)
    /\ UNCHANGED observed

ClearStep == clear /\ UNCHANGED observed

GridStep == applies = 0 /\ applyGrid

CircularStep == applies = 0 /\ applyCircular

ForceStep == applies = 0 /\ \E tape \in Tapes : applyForceDirected(tape)

HierStep == applies = 0 /\ \E h \in HashOrders : applyHierarchical(h)

Next ==
    \/ AddNodeStep
    \/ AddEdgeStep
    \/ ClearStep
    \/ UpdateStep
    \/ GridStep
    \/ CircularStep
    \/ ForceStep
    \/ HierStep

Spec == Init /\ [][Next]_vars

\* SpecHier: nodes 1, 2, ... are added in this order, then up to MaxEdges
\* edges between any ids; the algorithm is HierarchicalLayout
AddHierNode ==
    /\ applies = 0
    /\ nodeCount < MaxId
    /\ \E k \in AllKinds : addNode(nodeCount + 1, k.position, k.size)
    /\ UNCHANGED observed

AddAnyEdge ==
    /\ applies = 0
    /\ Len(edges_) < MaxEdges
    /\ \E f \in Ids, t \in Ids : addEdge(f, t)
    /\ UNCHANGED observed

InitHier == InitWith({"hierarchical"})

NextHier == AddHierNode \/ AddAnyEdge \/ HierStep

SpecHier == InitHier /\ [][NextHier]_vars

\* SpecForce: nodes 1, 2, ... of the kinds NodeKinds, up to SmallMaxEdges
\* edges; the algorithm is ForceDirectedLayout
AddNextNode ==
    /\ applies = 0
    /\ nodeCount < MaxId
    /\ \E k \in NodeKinds : addNode(nodeCount + 1, k.position, k.size)
    /\ UNCHANGED observed

InitForce == InitWith({"force_directed"})

NextForce == AddNextNode \/ AddEdgeStep \/ ForceStep

SpecForce == InitForce /\ [][NextForce]_vars

\* SpecGrid: nodes with any ids in any order, no edges, and up to MaxRepeats
\* calls of apply; the algorithm is GridLayout or CircularLayout
AddAnyNode ==
    /\ applies = 0
    /\ \E nid \in 1..GridMaxNodes, k \in AllKinds : addNode(nid, k.position, k.size)
    /\ UNCHANGED observed

GridAgain == applies < MaxRepeats /\ applyGrid

CircularAgain == applies < MaxRepeats /\ applyCircular

InitGrid == InitWith({"grid", "circular"})

NextGrid == AddAnyNode \/ GridAgain \/ CircularAgain

SpecGrid == InitGrid /\ [][NextGrid]_vars

\* SpecRegistry: the registry starts empty; the caller registers up to
\* MaxRegistered names, creates instances, constructs the Layout object and
\* applies it to the empty graph
RegisterStep ==
    \E algorithmType \in AlgorithmNames, name \in RegistryNames :
        /\ name \in DOMAIN factories \/ Cardinality(DOMAIN factories) < MaxRegistered
        /\ registerAlgorithm(algorithmType, name)

CreateStep == \E name \in RegistryNames : createInstance(name)

LayoutFromNameStep ==
    /\ algorithm_ = NoLayout
    /\ \E algorithmName \in RegistryNames : LayoutFromName(algorithmName)

LayoutFromInstanceStep ==
    /\ algorithm_ = NoLayout
    /\ \E algorithm \in AlgorithmNames \cup {Null} : LayoutFromInstance(algorithm)

ApplyEmptyStep == applies = 0 /\ applyToEmptyGraph

InitRegistry ==
    /\ InitWith({NoLayout})
    /\ config_ = MkConfig(80, 100, 8, 1)

NextRegistry ==
    \/ RegisterStep
    \/ CreateStep
    \/ LayoutFromNameStep
    \/ LayoutFromInstanceStep
    \/ ApplyEmptyStep

SpecRegistry == InitRegistry /\ [][NextRegistry]_vars

\* SpecGraph: the container alone, under any sequence of its mutators on
\* the ids 1..MaxId, with up to MaxEdges edges
AddGraphNode ==
    /\ \E nid \in Ids, k \in NodeKinds : addNode(nid, k.position, k.size)
    /\ UNCHANGED observed

InitGraph == InitRegistry

NextGraph == AddGraphNode \/ AddAnyEdge \/ UpdateStep \/ ClearStep

SpecGraph == InitGraph /\ [][NextGraph]_vars

\* SpecCalls: the container with its readers, up to SmallMaxEdges edges; the
\* caller keeps what each call showed it
CallAddNode ==
    \E nid \in Ids, k \in NodeKinds :
        /\ addNode(nid, k.position, k.size)
        /\ observed' = Observed("addNode", nid, nodeCount, Void,
                                observed.added \cup {nid})

CallAddEdge ==
    /\ Len(edges_) < SmallMaxEdges
    /\ \E f \in Ids, t \in Ids :
          /\ addEdge(f, t)
          /\ observed' = Observed("addEdge", f, nodeCount, Void, observed.added)

CallClear ==
    /\ clear
    /\ observed' = Observed("clear", 0, nodeCount, Void, {})

CallUpdate ==
    \E nid \in Ids, pos \in StartPositions :
        /\ updateNodePosition(nid, pos)
        /\ observed' = Observed("updateNodePosition", nid, nodeCount, Void,
                                observed.added)

CallGetNode ==
    /\ \E nid \in Ids :
          observed' = Observed("getNode", nid, nodeCount, getNode(nodes_, nid),
                               observed.added)
    /\ UNCHANGED registryVars
    /\ UNCHANGED << algorithm_, config_, nodes_, nodeOrder, edges_, adjacency_list_,
                    layers_, node_to_layer_, result, lastCall, rounds, work, applies >>

CallGetNeighbors ==
    /\ \E nid \in Ids :
          observed' = Observed("getNeighbors", nid, nodeCount,
                               getNeighbors(adjacency_list_, nid), observed.added)
    /\ UNCHANGED registryVars
    /\ UNCHANGED << algorithm_, config_, nodes_, nodeOrder, edges_, adjacency_list_,
                    layers_, node_to_layer_, result, lastCall, rounds, work, applies >>

NextCalls ==
    \/ CallAddNode
    \/ CallAddEdge
    \/ CallClear
    \/ CallUpdate
    \/ CallGetNode
    \/ CallGetNeighbors

SpecCalls == InitGraph /\ [][NextCalls]_vars

\* SpecUtils: a graph of nodes of the kinds UtilKinds, then up to MaxRepeats
\* calls of centerGraph and scaleToFit
UtilKinds == NodeKinds \cup { [position |-> Pt(100, 40), size |-> Pt(800, 30)] }

\* the arguments of scaleToFit: the window of the demo and a small one
Targets == { [width |-> 800, height |-> 600, margin |-> 50],
             [width |-> 200, height |-> 150, margin |-> 50] }

AddUtilNode ==
    /\ applies = 0
    /\ \E nid \in Ids, k \in UtilKinds : addNode(nid, k.position, k.size)
    /\ UNCHANGED observed

CenterStep == applies < MaxRepeats /\ centerGraph

ScaleStep ==
    /\ applies < MaxRepeats
    /\ \E t \in Targets : scaleToFit(t.width, t.height, t.margin)

NextUtils == AddUtilNode \/ CenterStep \/ ScaleStep

SpecUtils == InitGraph /\ [][NextUtils]_vars

\* SpecTwins: two nodes, placed at the origin or elsewhere, joined by one
\* edge, and ForceDirectedLayout with a limit of 50 or of 60 iterations
LongConfigs == { MkConfig(80, 100, 50 * IterUnit, 1),
                 MkConfig(20, 0, 60 * IterUnit, 0),
                 MkConfig(0, 100, 50 * IterUnit, 1) }

NodeSizes == { k.size : k \in NodeKinds }

AddTwin ==
    /\ applies = 0
    /\ nodeCount < 2
    /\ \E pos \in StartPositions, sz \in NodeSizes : addNode(nodeCount + 1, pos, sz)
    /\ UNCHANGED observed

JoinTwins ==
    /\ applies = 0
    /\ nodeCount = 2
    /\ Len(edges_) = 0
    /\ \E f \in {1, 2} : addEdge(f, 3 - f)
    /\ UNCHANGED observed

InitTwins ==
    /\ algorithm_ = "force_directed"
    /\ config_ \in LongConfigs
    /\ nodes_ = EmptyMap
    /\ nodeOrder = <<>>
    /\ edges_ = <<>>
    /\ adjacency_list_ = EmptyMap
    /\ layers_ = <<>>
    /\ node_to_layer_ = EmptyMap
    /\ result = EmptyResult
    /\ lastCall = NoCall
    /\ rounds = 0
    /\ work = NoWork
    /\ applies = 0
    /\ factories = EmptyMap
    /\ registryCall = NoRegistryCall
    /\ observed = NoObservation

NextTwins == AddTwin \/ JoinTwins \/ ForceStep

SpecTwins == InitTwins /\ [][NextTwins]_vars

\* SpecWork: nodes 1, 2, ... of the kinds NodeKinds, up to SmallMaxEdges
\* edges, then one apply of any of the four algorithms
InitWork == Init

NextWork == AddNextNode \/ AddEdgeStep \/ GridStep \/ CircularStep \/ ForceStep \/ HierStep

SpecWork == InitWork /\ [][NextWork]_vars

\* a Layout object of the algorithm name with one of configs, and an empty graph
InitAs(name, configs) ==
    /\ algorithm_ = name
    /\ config_ \in configs
    /\ nodes_ = EmptyMap
    /\ nodeOrder = <<>>
    /\ edges_ = <<>>
    /\ adjacency_list_ = EmptyMap
    /\ layers_ = <<>>
    /\ node_to_layer_ = EmptyMap
    /\ result = EmptyResult
    /\ lastCall = NoCall
    /\ rounds = 0
    /\ work = NoWork
    /\ applies = 0
    /\ factories = EmptyMap
    /\ registryCall = NoRegistryCall
    /\ observed = NoObservation

\* SpecLayers: HierarchicalLayout on acyclic graphs of up to LayerNodes
\* default nodes Node(id).  The caller adds the nodes 1, 2, ... and up to
\* LayerEdges distinct edges, each from a node to a node of larger id, in
\* ascending order of (from, to).  The limit of 12 iterations allows three
\* rounds of crossing reduction.
LayerIds == 1..LayerNodes

LayerHashOrders == { h \in [LayerIds -> LayerIds] : \A i, j \in LayerIds : h[i] = h[j] => i = j }

LayerConfigs == { MkConfig(80, 100, 12 * IterUnit, 1) }

EdgeRank(from, to) == from * (LayerNodes + 1) + to

AddLayerNode ==
    /\ applies = 0
    /\ nodeCount < LayerNodes
    /\ addNode(nodeCount + 1, Origin, Pt(DefaultNodeWidth, DefaultNodeHeight))
    /\ UNCHANGED observed

AddForwardEdge ==
    /\ applies = 0
    /\ Len(edges_) < LayerEdges
    /\ \E f \in DOMAIN nodes_, t \in DOMAIN nodes_ :
          /\ f < t
          /\ IF edges_ = <<>> THEN TRUE
             ELSE EdgeRank(edges_[Len(edges_)].from, edges_[Len(edges_)].to) < EdgeRank(f, t)
          /\ addEdge(f, t)
    /\ UNCHANGED observed

LayerStep == applies = 0 /\ \E h \in LayerHashOrders : applyHierarchical(h)

InitLayers == InitAs("hierarchical", LayerConfigs)

NextLayers == AddLayerNode \/ AddForwardEdge \/ LayerStep

SpecLayers == InitLayers /\ [][NextLayers]_vars

\* SpecOverlap: nodes 1, 2, ... that the caller has placed, of the sizes
\* NodeSizes, no edges, then one apply of ForceDirectedLayout; placed nodes
\* keep their positions up to the simulation
PlacedPositions == { Pt(100, 40), Pt(130, 50), Pt(210, 110), Pt(400, 300) }

AddPlacedNode ==
    /\ applies = 0
    /\ nodeCount < MaxId
    /\ \E pos \in PlacedPositions, sz \in NodeSizes : addNode(nodeCount + 1, pos, sz)
    /\ UNCHANGED observed

InitOverlap == InitAs("force_directed", Configs)

NextOverlap == AddPlacedNode \/ ForceStep

SpecOverlap == InitOverlap /\ [][NextOverlap]_vars

\* SpecDangling: nodes 1, 2, ... that the caller may have placed, of the
\* sizes NodeSizes, up to MaxEdges edges whose ends are those ids or the id
\* after them, which is no node, then one apply of HierarchicalLayout
WideIds == 1..(MaxId + 1)

WideHashOrders == { h \in [WideIds -> WideIds] : \A i, j \in WideIds : h[i] = h[j] => i = j }

AddSizedNode ==
    /\ applies = 0
    /\ nodeCount < MaxId
    /\ \E pos \in StartPositions, sz \in NodeSizes : addNode(nodeCount + 1, pos, sz)
    /\ UNCHANGED observed

AddWideEdge ==
    /\ applies = 0
    /\ Len(edges_) < MaxEdges
    /\ \E f \in WideIds, t \in WideIds : addEdge(f, t)
    /\ UNCHANGED observed

WideStep == applies = 0 /\ \E h \in WideHashOrders : applyHierarchical(h)

InitDangling == InitAs("hierarchical", LayerConfigs)

NextDangling == AddSizedNode \/ AddWideEdge \/ WideStep

SpecDangling == InitDangling /\ [][NextDangling]_vars

\* ------------------------------------------------------------------------
\* utils::createTestGraph (Layout.hpp)
\* ------------------------------------------------------------------------
\* A fresh graph as the record [nodes, order, edges, adjacency]; the two
\* operators below are Graph::addNode and Graph::addEdge on such a record.
EmptyGraph == [nodes |-> EmptyMap, order |-> <<>>, edges |-> <<>>, adjacency |-> EmptyMap]

WithNode(g, node) ==
    [g EXCEPT !.nodes = MapPut(g.nodes, node.id, node),
              !.order = IF node.id \in DOMAIN g.nodes THEN g.order
                                                      ELSE <<node.id>> \o g.order,
              !.adjacency = IF node.id \in DOMAIN g.adjacency THEN g.adjacency
                            ELSE MapPut(g.adjacency, node.id, <<>>)]

WithEdge(g, f, t) ==
    LET a1 == MapPut(g.adjacency, f, Append(getNeighbors(g.adjacency, f), t))
    IN [g EXCEPT !.edges = Append(g.edges, [from |-> f, to |-> t]),
                 !.adjacency = IF t \in DOMAIN a1 THEN a1 ELSE MapPut(a1, t, <<>>)]

\* rand() returns a value of 0..RAND_MAX; the model draws it from these
RandOutcomes == { 0, RAND_MAX \div 2, RAND_MAX }

\* edgeProbability, in percent
EdgeProbabilities == { 0, 30, 100, 150 }

\* static_cast<double>(rand()) / RAND_MAX < edgeProbability
EdgeDrawn(r, edgeProbability) == r * 100 < edgeProbability * RAND_MAX

\* the first j of the inner loop of the edge loop
FirstPartner(i) == i + 1

\* an edge from the inner loop's node to the outer loop's
TestEdgeReversed(i, j) == [from |-> j, to |-> i]

\* the edge {i, j} the loop adds
TestEdge(i, j) == [from |-> i, to |-> j]

\* the node loop from i on; draws holds the values rand() returns, in order
RECURSIVE TestNodeLoop(_, _, _, _)
TestNodeLoop(g, i, n, draws) ==
    IF i >= n THEN g
    ELSE TestNodeLoop(WithNode(g, MkNode(i, Pt(draws[2 * i + 1] % TestExtent,
                                               draws[2 * i + 2] % TestExtent),
                                         Pt(DefaultNodeWidth, DefaultNodeHeight))),
                      i + 1, n, draws)

\* the edge loops from the pair (i, j) on, di draws having been used
RECURSIVE TestEdgeLoop(_, _, _, _, _, _, _)
TestEdgeLoop(g, i, j, n, edgeProbability, draws, di) ==
    IF i >= n THEN g
    ELSE IF j >= n
    THEN TestEdgeLoop(g, i + 1, FirstPartner(i + 1), n, edgeProbability, draws, di)
    ELSE TestEdgeLoop(IF EdgeDrawn(draws[di + 1], edgeProbability)
                      THEN WithEdge(g, TestEdge(i, j).from, TestEdge(i, j).to)
                      ELSE g,
                      i, j + 1, n, edgeProbability, draws, di + 1)

createTestGraph(n, edgeProbability, draws) ==
    TestEdgeLoop(TestNodeLoop(EmptyGraph, 0, n, draws), 0, FirstPartner(0), n,
                 edgeProbability, draws, 2 * n)

\* SpecTest: createTestGraph with a nodeCount of 0..TestNodes, an
\* edgeProbability and the values of rand() (one value for all the position
\* draws, any value for each edge draw), then one apply of HierarchicalLayout
\* on the graph it returned
TestIds == 0..(TestNodes - 1)

TestHashOrders == { h \in [1..TestNodes -> TestIds] : \A i, j \in 1..TestNodes : h[i] = h[j] => i = j }

TestDraws(n) ==
    { [k \in 1..(2 * n) |-> r] \o e :
        r \in RandOutcomes, e \in [1..((n * (n - 1)) \div 2) -> RandOutcomes] }

CreateTestStep ==
    /\ observed = NoObservation
    /\ applies = 0
    /\ \E n \in 0..TestNodes, edgeProbability \in EdgeProbabilities :
          \E draws \in TestDraws(n) :
             LET g == createTestGraph(n, edgeProbability, draws)
             IN /\ nodes_' = g.nodes
                /\ nodeOrder' = g.order
                /\ edges_' = g.edges
                /\ adjacency_list_' = g.adjacency
                /\ observed' = Observed("createTestGraph", 0, n, Void, {})
    /\ lastCall' = NoCall
    /\ UNCHANGED registryVars
    /\ UNCHANGED << algorithm_, config_, layers_, node_to_layer_, result, rounds, work, applies >>

TestStep ==
    /\ observed.op = "createTestGraph"
    /\ applies = 0
    /\ \E h \in TestHashOrders : applyHierarchical(h)

InitTest == InitAs("hierarchical", Configs)

NextTest == CreateTestStep \/ TestStep

SpecTest == InitTest /\ [][NextTest]_vars

TypeOK ==
    /\ DOMAIN nodes_ \subseteq Ids \cup 1..GridMaxNodes
    /\ Range(nodeOrder) = DOMAIN nodes_
    /\ Len(nodeOrder) = Cardinality(DOMAIN nodes_)
    /\ Len(edges_) <= MaxEdges
    /\ applies >= 0

\* ------------------------------------------------------------------------
\* Vocabulary of the properties
\* ------------------------------------------------------------------------
Applied(name) == lastCall.op = name

IsNode(nid) == nid \in DOMAIN nodes_

\* every edge joins two nodes of the graph
ValidEdges == \A i \in DOMAIN edges_ : IsNode(edges_[i].from) /\ IsNode(edges_[i].to)

\* there is a directed path of n >= 1 edges from a to b
RECURSIVE PathWithin(_, _, _)
PathWithin(a, b, n) ==
    /\ n >= 1
    /\ \E i \in DOMAIN edges_ :
          /\ edges_[i].from = a
          /\ (edges_[i].to = b \/ PathWithin(edges_[i].to, b, n - 1))

HasCycle == \E v \in Ids : PathWithin(v, v, Len(edges_))

\* ------------------------------------------------------------------------
\* C1: after a successful HierarchicalLayout::apply on an acyclic graph
\* whose edges join existing nodes, with layerSpacing >= 0, every edge
\* (u, v) has layer(u) < layer(v) and position.y of u < position.y of v.
\* ------------------------------------------------------------------------
C1_EdgesPointDown ==
    ( /\ Applied("hierarchical")
      /\ result.success
      /\ nodeCount > 0
      /\ ValidEdges
      /\ ~ HasCycle
      /\ config_.layerSpacing >= 0 )
    => \A i \in DOMAIN edges_ :
          /\ node_to_layer_[edges_[i].from] < node_to_layer_[edges_[i].to]
          /\ nodes_[edges_[i].from].position.y < nodes_[edges_[i].to].position.y

\* two nodes without height joined by two parallel edges, laid out on two
\* layers with layerSpacing = 0
C1_Witness ==
    /\ Applied("hierarchical")
    /\ result.success
    /\ ValidEdges
    /\ config_.layerSpacing = 0
    /\ \A k \in DOMAIN nodes_ : nodes_[k].size.y = 0
    /\ Len(edges_) = 2
    /\ Len(layers_) = 2
    /\ \A i \in DOMAIN edges_ :
          nodes_[edges_[i].from].position.y < nodes_[edges_[i].to].position.y

\* ------------------------------------------------------------------------
\* C2: on a non-empty graph whose edges join existing nodes,
\* HierarchicalLayout::apply returns success = false with the cycle message
\* exactly when the graph has a directed cycle (a self-loop included), and
\* then phases 2 and 3 do not run: no layer is stored and no node moves.
\* ------------------------------------------------------------------------
C2_FailsIffCycle ==
    /\ [] ( ( Applied("hierarchical") /\ nodeCount > 0 /\ ValidEdges )
            => ( (~ result.success /\ result.errorMessage = CycleMessage)
                 <=> HasCycle ) )
    /\ [][ ( /\ lastCall'.op = "hierarchical"
             /\ applies' = applies + 1
             /\ nodeCount > 0
             /\ ValidEdges
             /\ HasCycle )
           => ( nodes_' = nodes_ /\ layers_' = <<>> ) ]_vars

\* a two-node cycle and a self-loop both occur and are reported
C2_Witness ==
    /\ Applied("hierarchical")
    /\ nodeCount > 0
    /\ ValidEdges
    /\ HasCycle
    /\ ~ result.success
    /\ result.errorMessage = CycleMessage
    /\ \E i \in DOMAIN edges_ : edges_[i].from # edges_[i].to

\* an apply call of the step just taken
ApplyStep(names) == lastCall'.op \in names /\ applies' = applies + 1

\* C3: for each of the four algorithms, apply changes nothing of the graph
\* but the positions of its nodes: the set of node ids, every node's id and
\* size, the edge sequence and the adjacency lists are the same after the
\* call as before it, whether the call succeeds or fails.
C3_OnlyPositionsChange ==
    [][ApplyStep(AlgorithmNames) =>
          /\ DOMAIN nodes_' = DOMAIN nodes_
          /\ \A k \in DOMAIN nodes_ : /\ nodes_'[k].id = nodes_[k].id
                                      /\ nodes_'[k].size = nodes_[k].size
          /\ nodeOrder' = nodeOrder
          /\ edges_' = edges_
          /\ adjacency_list_' = adjacency_list_]_vars

C3_Witness ==
    /\ lastCall.op \in AlgorithmNames
    /\ result.success
    /\ nodeCount = SmallMaxNodes
    /\ Len(edges_) = 1
    /\ \E k \in DOMAIN adjacency_list_ : Len(adjacency_list_[k]) = 1
    /\ \A k \in DOMAIN nodes_ : /\ nodes_[k].position \notin StartPositions
                                /\ nodes_[k].size = Pt(DefaultNodeWidth, DefaultNodeHeight)

\* C5: applied to a graph without nodes, every algorithm returns
\* success = true and leaves the graph without nodes (and its edge sequence
\* as it was).
C5_EmptyGraphSucceeds ==
    [][(ApplyStep(AlgorithmNames) /\ nodeCount = 0) =>
          /\ result'.success
          /\ result'.errorMessage = ""
          /\ nodes_' = EmptyMap
          /\ edges_' = edges_]_vars

C5_Witness ==
    /\ Applied("hierarchical")
    /\ nodeCount = 0
    /\ Len(edges_) = 1
    /\ result.success

CellOf(k) ==
    LET cols == GridCols(Len(nodeOrder))
        cw == GridCellWidth(nodes_, config_)
        ch == GridCellHeight(nodes_, config_)
    IN [x |-> config_.marginX + ((k - 1) % cols) * cw,
        y |-> config_.marginY + ((k - 1) \div cols) * ch,
        w |-> cw, h |-> ch]

InsideCell(node, cell) ==
    /\ cell.x <= node.position.x
    /\ node.position.x + node.size.x <= cell.x + cell.w
    /\ cell.y <= node.position.y
    /\ node.position.y + node.size.y <= cell.y + cell.h

\* C4: after GridLayout::apply with nodeSpacing >= 0, whatever the number and
\* the sizes of the nodes, no two node rectangles overlap
\* (countOverlaps = 0, touching rectangles not counted) and every node lies
\* inside its own grid cell, the cells of different nodes being different.
C4_GridNoOverlap ==
    (Applied("grid") /\ config_.nodeSpacing >= 0) =>
        /\ countOverlaps(nodes_, nodeOrder, 0) = 0
        /\ \A k \in DOMAIN nodeOrder : InsideCell(nodes_[nodeOrder[k]], CellOf(k))
        /\ \A k, l \in DOMAIN nodeOrder :
              k # l => << CellOf(k).x, CellOf(k).y >> # << CellOf(l).x, CellOf(l).y >>

\* three nodes, two of them wide ones that touch along a cell border
C4_Witness ==
    /\ Applied("grid")
    /\ config_.nodeSpacing = 0
    /\ nodeCount = 3
    /\ countOverlaps(nodes_, nodeOrder, 0) = 0
    /\ \E a, b \in DOMAIN nodes_ :
          /\ a # b
          /\ nodes_[a].position.y = nodes_[b].position.y
          /\ nodes_[a].position.x + nodes_[a].size.x = nodes_[b].position.x

\* C6: GridLayout::apply and CircularLayout::apply are idempotent: a second
\* apply with the same config on the graph as the first apply left it moves
\* no node, whatever the positions were before the first apply.
C6_GridCircularIdempotent ==
    [][(ApplyStep({"grid", "circular"}) /\ lastCall.op = lastCall'.op) =>
          nodes_' = nodes_]_vars

C6_Witness ==
    /\ Applied("circular")
    /\ applies = 2
    /\ nodeCount = 3
    /\ \E k \in DOMAIN nodes_ : nodes_[k].size # Pt(DefaultNodeWidth, DefaultNodeHeight)

\* C7: ForceDirectedLayout::apply returns result.iterations <=
\* config.iterations, for every graph and every config with iterations >= 0
\* (config_.iterations is held in units of 1/IterUnit).
C7_IterationsBounded ==
    (Applied("force_directed") /\ config_.iterations >= 0) =>
        result.iterations * IterUnit <= config_.iterations

\* the limit 2.5 is truncated to 2 rounds, all of them run
C7_Witness ==
    /\ Applied("force_directed")
    /\ nodeCount >= 2
    /\ config_.iterations % IterUnit # 0
    /\ result.iterations = 2
    /\ rounds = 2

\* C8: ForceDirectedLayout::apply reports in result.iterations the number of
\* simulation rounds it executed, when the loop runs to the limit and when it
\* leaves early on convergence.
C8_IterationsAreRounds ==
    Applied("force_directed") => result.iterations = rounds

\* the same graph with edge i taken out
WithoutEdge(edges, i) == SubSeq(edges, 1, i - 1) \o SubSeq(edges, i + 1, Len(edges))

Dangling(e) == ~ IsNode(e.from) \/ ~ IsNode(e.to)

\* the algorithm named name applied to a graph: [nodes, result]
ApplyOn(name, ns, order, edges, config, call) ==
    CASE name = "grid" -> [nodes |-> GridApply(ns, order, config).nodes,
                           result |-> GridApply(ns, order, config).result]
      [] name = "circular" -> [nodes |-> CircularApply(ns, order, config).nodes,
                               result |-> CircularApply(ns, order, config).result]
      [] name = "force_directed" ->
            LET r == ForceDirectedApply(ns, order, edges, config, call.tape)
            IN [nodes |-> r.nodes, result |-> r.result]
      [] name = "hierarchical" ->
            LET r == HierarchicalApply(ns, edges, config, call.hashOrder, <<>>, EmptyMap)
            IN [nodes |-> r.nodes, result |-> r.result]

\* C10: every algorithm skips an edge whose from or to id is not a node:
\* apply gives the same success value and the same node positions as apply
\* on the graph without that edge (same random draws, same iteration orders).
C10_DanglingEdgesSkipped ==
    [][ApplyStep(AlgorithmNames) =>
          \A i \in DOMAIN edges_ :
             Dangling(edges_[i]) =>
                LET r == ApplyOn(lastCall'.op, nodes_, nodeOrder,
                                 WithoutEdge(edges_, i), config_, lastCall')
                IN /\ result'.success = r.result.success
                   /\ nodes_' = r.nodes]_vars

\* C11: in every LayoutResult an apply returns, errorMessage is non-empty
\* only if success is false: a successful result has an empty errorMessage.
C11_MessageOnlyOnFailure ==
    (lastCall.op \in AlgorithmNames /\ result.errorMessage # "") => ~ result.success

\* a failed hierarchical layout of a node with a self-loop carries the message
C11_Witness ==
    /\ Applied("hierarchical")
    /\ nodeCount > 0
    /\ ValidEdges
    /\ result.errorMessage # ""
    /\ ~ result.success

\* C12: for every algorithm and every graph, the boundingBox of the returned
\* LayoutResult equals the extents of the node rectangles as they are when
\* apply returns (max right edge minus min left edge, max bottom edge minus
\* min top edge), when success is true and when it is false.
C12_BoundingBoxIsExtents ==
    lastCall.op \in AlgorithmNames => result.boundingBox = calculateBoundingBox(nodes_)

\* C13: without the caller having registered anything, LayoutRegistry::create
\* called with "hierarchical", "force_directed", "grid" or "circular" returns
\* an instance whose getName() is that name, and constructing Layout from
\* each of these names succeeds.
C13_BuiltinsRegistered ==
    ( /\ registryCall.op \in {"create", "Layout"}
      /\ registryCall.name \in AlgorithmNames
      /\ factories = EmptyMap )
    => ( /\ registryCall.returned = registryCall.name
         /\ registryCall.thrown = <<>>
         /\ registryCall.op = "Layout" => algorithm_ = registryCall.name )

\* C14: for a name without a registered factory, LayoutRegistry::create
\* returns the null pointer, throws nothing and leaves the registry as it
\* was, while the Layout constructor throws for the same name; no Layout
\* object a constructor returns has an absent algorithm, so Layout::apply
\* never reports a missing algorithm.
C14_CreateSilentLayoutThrows ==
    /\ [] ( ( /\ registryCall.op = "create"
              /\ registryCall.name \notin DOMAIN factories )
            => ( registryCall.returned = Null /\ registryCall.thrown = <<>> ) )
    /\ [][ registryCall'.op = "create" => factories' = factories ]_vars
    /\ [] ( ( /\ registryCall.op = "Layout"
              /\ registryCall.name \in RegistryNames \ DOMAIN factories )
            => ( /\ registryCall.thrown = UnknownMessage(registryCall.name)
                 /\ algorithm_ = NoLayout ) )
    /\ [] ( algorithm_ # Null /\ result.errorMessage # NoAlgorithmMessage )

\* with another name registered, the constructor was called with a name
\* that is not, and threw
C14_Witness ==
    /\ factories # EmptyMap
    /\ registryCall.op = "Layout"
    /\ registryCall.name \in RegistryNames \ DOMAIN factories
    /\ registryCall.thrown = UnknownMessage(registryCall.name)
    /\ algorithm_ = NoLayout

\* the `to` ids of the edges that leave nid, in edge insertion order
NeighborsFromEdges(edges, nid) ==
    LET leaving == SelectSeq(edges, LAMBDA e : e.from = nid)
    IN [i \in 1..Len(leaving) |-> leaving[i].to]

\* C15: after any sequence of addNode, addEdge, updateNodePosition and clear,
\* the adjacency list is the edge sequence grouped by source: for every id,
\* getNeighbors(id) is the sequence of the `to` ids of the edges whose `from`
\* is id, in edge insertion order with duplicates kept, and every id that is
\* an endpoint of an edge is a key of the adjacency list.
C15_AdjacencyMatchesEdges ==
    /\ \A nid \in Ids :
          getNeighbors(adjacency_list_, nid) = NeighborsFromEdges(edges_, nid)
    /\ \A i \in DOMAIN edges_ : /\ edges_[i].from \in DOMAIN adjacency_list_
                                /\ edges_[i].to \in DOMAIN adjacency_list_

\* two edges from the same node, the first to an id that is no node, then a
\* second to itself; the source has both neighbors in this order
C15_Witness ==
    /\ Len(edges_) = 2
    /\ edges_[1].from = edges_[2].from
    /\ ~ IsNode(edges_[1].to)
    /\ edges_[2].to = edges_[2].from
    /\ IsNode(edges_[1].from)
    /\ adjacency_list_[edges_[1].from] = << edges_[1].to, edges_[2].to >>
    /\ adjacency_list_[edges_[1].to] = <<>>

\* C16: addNode with an id already present overwrites that node's position
\* and size with the new values and changes nothing else: nodeCount, the
\* other nodes, the edge sequence and the adjacency lists (the outgoing
\* neighbors of that id among them) are unchanged; so nodeCount is always the
\* number of distinct ids passed to addNode since the last clear.
C16_AddNodeOverwrites ==
    /\ [][ ( observed'.op = "addNode" /\ observed'.id \in DOMAIN nodes_ ) =>
              \A k \in NodeKinds :
                 addNode(observed'.id, k.position, k.size)
                 => ( /\ nodes_'[observed'.id] = MkNode(observed'.id, k.position, k.size)
                      /\ \A o \in DOMAIN nodes_ \ {observed'.id} : nodes_'[o] = nodes_[o]
                      /\ Cardinality(DOMAIN nodes_') = Cardinality(DOMAIN nodes_)
                      /\ edges_' = edges_
                      /\ getNeighbors(adjacency_list_', observed'.id)
                            = getNeighbors(adjacency_list_, observed'.id)
                      /\ adjacency_list_' = adjacency_list_ ) ]_vars
    /\ [] ( nodeCount = Cardinality(observed.added) )

\* a node that has an outgoing edge was added again with another size: the
\* count read before the call is the count after it
C16_Witness ==
    /\ observed.op = "addNode"
    /\ observed.count = nodeCount
    /\ nodeCount = 2
    /\ nodes_[observed.id].size # Pt(DefaultNodeWidth, DefaultNodeHeight)
    /\ Len(getNeighbors(adjacency_list_, observed.id)) = 1
    /\ Cardinality(observed.added) = 2

\* the graph is after the step as it was before it
GraphUnchanged ==
    /\ nodes_' = nodes_
    /\ nodeOrder' = nodeOrder
    /\ edges_' = edges_
    /\ adjacency_list_' = adjacency_list_

\* C17: operations on an id that is not a node change nothing of the graph:
\* getNode returns the null pointer, getNeighbors returns an empty sequence
\* when the id has no adjacency entry, and updateNodePosition is a no-op that
\* creates no node.
C17_UnknownIdsAreSilent ==
    /\ [] ( ( observed.op = "getNode" /\ ~ IsNode(observed.id) )
            => observed.value = <<>> )
    /\ [] ( ( observed.op = "getNeighbors"
              /\ observed.id \notin DOMAIN adjacency_list_ )
            => observed.value = <<>> )
    /\ [][ observed'.op \in {"getNode", "getNeighbors"} => GraphUnchanged ]_vars
    /\ [][ ( observed'.op = "updateNodePosition" /\ ~ IsNode(observed'.id) )
           => GraphUnchanged ]_vars

\* updateNodePosition was called with an id that is no node, though it is
\* the target of an edge of the graph
C17_Witness ==
    /\ observed.op = "updateNodePosition"
    /\ ~ IsNode(observed.id)
    /\ nodeCount = 1
    /\ \E i \in DOMAIN edges_ : edges_[i].to = observed.id
    /\ observed.id \in DOMAIN adjacency_list_

\* C18: after utils::centerGraph on a non-empty graph the midpoint of the
\* bounding box of the node rectangles is (0,0) (min left + max right = 0 and
\* min top + max bottom = 0), every node has been translated by the same
\* vector, and the sizes of the nodes are unchanged.
C18_CenterGraphCenters ==
    [][ ( lastCall'.op = "centerGraph" /\ applies' = applies + 1 /\ nodeCount > 0 ) =>
          /\ DOMAIN nodes_' = DOMAIN nodes_
          /\ BoundsOf(nodes_').minX + BoundsOf(nodes_').maxX = 0
          /\ BoundsOf(nodes_').minY + BoundsOf(nodes_').maxY = 0
          /\ \A k, l \in DOMAIN nodes_ :
                Delta(nodes_'[k].position, nodes_[k].position)
                   = Delta(nodes_'[l].position, nodes_[l].position)
          /\ \A k \in DOMAIN nodes_ : /\ nodes_'[k].size = nodes_[k].size
                                      /\ nodes_'[k].id = nodes_[k].id ]_vars

\* two nodes of different sizes at different places were centered: the left
\* and top bounds are negative, the right and bottom bounds their opposites
C18_Witness ==
    /\ lastCall.op = "centerGraph"
    /\ applies = 1
    /\ nodeCount = 2
    /\ \E k, l \in DOMAIN nodes_ : /\ nodes_[k].size # nodes_[l].size
                                   /\ nodes_[k].position # nodes_[l].position
    /\ BoundsOf(nodes_).minX < 0
    /\ BoundsOf(nodes_).maxX = 0 - BoundsOf(nodes_).minX
    /\ BoundsOf(nodes_).maxY = 0 - BoundsOf(nodes_).minY

\* C19: after utils::scaleToFit(graph, targetWidth, targetHeight, margin) on
\* a graph with a positive bounding box (scaleToFit(graph, 800, 600, 50) in
\* particular), calculateBoundingBox(graph) fits within
\* (targetWidth - 2*margin, targetHeight - 2*margin), whether the graph had
\* to be enlarged or shrunk.
C19_ScaleToFitFits ==
    [][ \A t \in Targets :
          ( /\ scaleToFit(t.width, t.height, t.margin)
            /\ lastCall'.op = "scaleToFit"
            /\ nodeCount > 0
            /\ calculateBoundingBox(nodes_).x > 0
            /\ calculateBoundingBox(nodes_).y > 0 )
          => ( /\ calculateBoundingBox(nodes_').x <= t.width - 2 * t.margin
               /\ calculateBoundingBox(nodes_').y <= t.height - 2 * t.margin ) ]_vars

\* C20: for a graph of two nodes joined by one edge that start at identical
\* positions (at the origin or anywhere else), ForceDirectedLayout::apply
\* with iterations >= 50 ends with the two node centers at a strictly
\* positive distance from each other, for every outcome of the random
\* choices.
C20_TwinsEndApart ==
    [][ ( /\ ApplyStep({"force_directed"})
          /\ DOMAIN nodes_ = {1, 2}
          /\ Len(edges_) = 1
          /\ nodes_[1].position = nodes_[2].position
          /\ config_.iterations >= 50 * IterUnit )
        => Center(nodes_'[1]) # Center(nodes_'[2]) ]_vars

\* the rounds of crossing reduction an apply may run at most
SweepLimit(config) == config.iterations \div (4 * IterUnit)

\* C21: every algorithm's apply runs to completion on every graph, cyclic or
\* not, within these bounds: the layering sweep takes no node from its queue
\* twice, crossing reduction runs at most floor(iterations / 4) rounds, the
\* force simulation runs at most config.iterations rounds, overlap cleanup
\* runs at most 10 passes.
C21_LoopsBounded ==
    /\ \A i, j \in DOMAIN work.dequeued : work.dequeued[i] = work.dequeued[j] => i = j
    /\ work.sweeps <= SweepLimit(config_)
    /\ rounds * IterUnit <= config_.iterations
    /\ work.passes <= 10

\* a hierarchical apply came back from a graph with a cycle after taking the
\* one node outside the cycle from the queue
C21_Witness ==
    /\ Applied("hierarchical")
    /\ ~ result.success
    /\ nodeCount = 2
    /\ HasCycle
    /\ Len(work.dequeued) = 1

\* the cleanup of a force-directed apply used all its passes, after a
\* simulation that ran to its limit
C21_CleanupExhausted ==
    /\ Applied("force_directed")
    /\ work.passes = 10
    /\ rounds > 0
    /\ rounds = MaxIterations(config_)

\* C22: no algorithm instance keeps data about a graph between apply calls:
\* after HierarchicalLayout::apply returns, with success, with a cycle
\* failure or early on an empty graph, its fields layers_ and node_to_layer_
\* hold nothing derived from the graph it laid out.
C22_NothingRetained ==
    Applied("hierarchical") => (layers_ = <<>> /\ node_to_layer_ = EmptyMap)

\* there is a walk of exactly n edges from a to b
RECURSIVE WalkOf(_, _, _)
WalkOf(a, b, n) ==
    IF n = 0 THEN a = b
    ELSE \E i \in DOMAIN edges_ : edges_[i].from = a /\ WalkOf(edges_[i].to, b, n - 1)

\* a cycle through one of the ids of S
HasCycleIn(S) == \E v \in S : PathWithin(v, v, Len(edges_))

IsSource(v) == IsNode(v) /\ \A i \in DOMAIN edges_ : edges_[i].to # v

\* the length of the longest path that ends at v and starts at a node without
\* incoming edges (in an acyclic graph, every walk is a path)
LongestPathTo(v) ==
    SetMax({ n \in 0..Len(edges_) : \E s \in DOMAIN nodes_ : IsSource(s) /\ WalkOf(s, v, n) })

\* C23: on an acyclic graph whose edges join existing nodes, the layer
\* HierarchicalLayout gives a node is the length of the longest path that
\* ends at it from a node of in-degree zero: sources are on layer 0, every
\* other node v is on layer 1 + the maximum layer of the nodes u with an edge
\* (u, v), and every layer from 0 to the maximum holds a node.
C23_LayerIsLongestPath ==
    (Applied("hierarchical") /\ result.success /\ nodeCount > 0 /\ ValidEdges /\ ~ HasCycleIn(DOMAIN nodes_)) =>
        /\ DOMAIN node_to_layer_ = DOMAIN nodes_
        /\ \A v \in DOMAIN nodes_ :
              /\ node_to_layer_[v] = LongestPathTo(v)
              /\ IF IsSource(v) THEN node_to_layer_[v] = 0
                 ELSE node_to_layer_[v] =
                        1 + SetMax({ node_to_layer_[edges_[i].from] :
                                       i \in { j \in DOMAIN edges_ : edges_[j].to = v } })
              /\ \E l \in DOMAIN layers_ :
                    /\ l = node_to_layer_[v] + 1
                    /\ v \in Range(layers_[l])
        /\ \A l \in DOMAIN layers_ :
              /\ layers_[l] # <<>>
              /\ \A k \in DOMAIN layers_[l] : node_to_layer_[layers_[l][k]] = l - 1

\* a node reached by paths of one and of two edges is on layer 2
C23_Witness ==
    /\ Applied("hierarchical")
    /\ result.success
    /\ ValidEdges
    /\ \E u, v, w \in DOMAIN nodes_ :
          /\ \E i, j, k \in DOMAIN edges_ :
                /\ edges_[i] = [from |-> u, to |-> v]
                /\ edges_[j] = [from |-> v, to |-> w]
                /\ edges_[k] = [from |-> u, to |-> w]
          /\ node_to_layer_[w] = 2
          /\ LongestPathTo(w) = 2

\* the number of edges from a to b
EdgeCount(a, b) == Cardinality({ i \in DOMAIN edges_ : edges_[i].from = a /\ edges_[i].to = b })

\* the sum, over the places k..Len(row) of row, of the 0-based place times
\* the number of edges between the node there and v, and the number of those
\* edges: << sum, count >>
RECURSIVE PlaceSum(_, _, _, _)
PlaceSum(row, v, forward, k) ==
    IF k > Len(row) THEN << 0, 0 >>
    ELSE LET n == IF forward THEN EdgeCount(row[k], v) ELSE EdgeCount(v, row[k])
             rest == PlaceSum(row, v, forward, k + 1)
         IN << (k - 1) * n + rest[1], n + rest[2] >>

\* the layer (1-based place in layers) that holds v
LayerOf(layers, v) == CHOOSE l \in DOMAIN layers : v \in Range(layers[l])

\* the barycenter of v as the claim defines it, a fraction << sum, count >>:
\* the mean place of its predecessors in the layer directly above (forward)
\* or of its successors in the layer directly below (backward), 0 without any
BarycenterOf(layers, v, forward) ==
    LET other == IF forward THEN LayerOf(layers, v) - 1 ELSE LayerOf(layers, v) + 1
        found == IF other \in DOMAIN layers THEN PlaceSum(layers[other], v, forward, 1)
                 ELSE << 0, 0 >>
    IN IF found[2] = 0 THEN << 0, 1 >> ELSE found

\* the fraction a is at most the fraction b
FractionLeq(a, b) == a[1] * b[2] <= b[1] * a[2]

\* one call of reorderLayer did what the claim says
ReorderedAsClaimed(r) ==
    /\ DOMAIN r.after = DOMAIN r.before
    /\ \A l \in DOMAIN r.before :
          /\ Len(r.after[l]) = Len(r.before[l])
          /\ Range(r.after[l]) = Range(r.before[l])
          /\ l # r.layer_idx + 1 => r.after[l] = r.before[l]
    /\ r.layer_idx + 1 \in DOMAIN r.after =>
          \A k \in 1..(Len(r.after[r.layer_idx + 1]) - 1) :
              FractionLeq(BarycenterOf(r.before, r.after[r.layer_idx + 1][k], r.forward),
                          BarycenterOf(r.before, r.after[r.layer_idx + 1][k + 1], r.forward))

\* C24: each reordering step of crossing reduction leaves every layer with
\* the nodes it had, the reordered layer in ascending order of barycenter
\* (forward: mean place of the predecessors in the layer directly above;
\* backward: mean place of the successors in the layer directly below; 0
\* without such a neighbour), and no node on another layer.
C24_ReorderSortsByBarycenter ==
    (Applied("hierarchical") /\ result.success /\ ValidEdges) =>
        /\ \A n \in DOMAIN work.reorders : ReorderedAsClaimed(work.reorders[n])
        /\ \A n \in DOMAIN work.reorders :
              \A v \in DOMAIN nodes_ :
                  LayerOf(work.reorders[n].after, v) = node_to_layer_[v] + 1

\* a forward step put a node with a smaller barycenter before a node it
\* followed
C24_Witness ==
    /\ Applied("hierarchical")
    /\ result.success
    /\ \E n \in DOMAIN work.reorders :
          LET r == work.reorders[n]
              row == r.after[r.layer_idx + 1]
          IN /\ r.forward
             /\ r.layer_idx + 1 \in DOMAIN r.after
             /\ Len(row) = 2
             /\ r.before[r.layer_idx + 1] = << row[2], row[1] >>
             /\ ~ FractionLeq(BarycenterOf(r.before, row[2], TRUE),
                              BarycenterOf(r.before, row[1], TRUE))

\* a backward step changed the order of a layer
C24_BackwardReordered ==
    /\ Applied("hierarchical")
    /\ result.success
    /\ \E n \in DOMAIN work.reorders :
          /\ ~ work.reorders[n].forward
          /\ work.reorders[n].after # work.reorders[n].before
          /\ work.sweeps > 1

\* the sum of width + nodeSpacing over the first n nodes of row
RECURSIVE WidthsBefore(_, _)
WidthsBefore(row, n) ==
    IF n = 0 THEN 0
    ELSE nodes_[row[n]].size.x + config_.nodeSpacing + WidthsBefore(row, n - 1)

\* the largest height of a node of row
MaxHeightOf(row) == SetMax({ nodes_[row[k]].size.y : k \in DOMAIN row })

\* the sum of maximum height + layerSpacing over the first n layers
RECURSIVE HeightsBefore(_)
HeightsBefore(n) ==
    IF n = 0 THEN 0
    ELSE MaxHeightOf(layers_[n]) + config_.layerSpacing + HeightsBefore(n - 1)

\* C25: after a successful HierarchicalLayout::apply the i-th node of layer
\* k is at x = marginX + the sum of (width + nodeSpacing) over the earlier
\* nodes of the layer and y = marginY + the sum of (maximum node height +
\* layerSpacing) over the earlier layers.
C25_LayerCoordinates ==
    (Applied("hierarchical") /\ result.success /\ nodeCount > 0 /\ ValidEdges) =>
        \A l \in DOMAIN layers_ :
            \A i \in DOMAIN layers_[l] :
                nodes_[layers_[l][i]].position =
                    Pt(config_.marginX + WidthsBefore(layers_[l], i - 1),
                       config_.marginY + HeightsBefore(l - 1))

\* the same where every layer above another holds a node of positive height
C25_WithPositiveHeights ==
    (/\ Applied("hierarchical") /\ result.success /\ nodeCount > 0 /\ ValidEdges
     /\ \A l \in DOMAIN layers_ : l < Len(layers_) => MaxHeightOf(layers_[l]) > 0) =>
        \A l \in DOMAIN layers_ :
            \A i \in DOMAIN layers_[l] :
                nodes_[layers_[l][i]].position =
                    Pt(config_.marginX + WidthsBefore(layers_[l], i - 1),
                       config_.marginY + HeightsBefore(l - 1))

\* a cell dimension with nodeSpacing added after the minimum is applied
CellAfterMinimum(minimum, largest) == Max(minimum, largest) + config_.nodeSpacing

LargestWidth == SetMax({ nodes_[i].size.x : i \in DOMAIN nodes_ })

LargestHeight == SetMax({ nodes_[i].size.y : i \in DOMAIN nodes_ })

\* C26: GridLayout::apply uses cells of width max(80, largest node width) +
\* nodeSpacing and height max(60, largest node height) + nodeSpacing: the
\* node at place k of the iteration is centred in the cell of that size at
\* column k mod cols and row k div cols, and the bounding box spans cols by
\* rows such cells plus the margins.
C26_CellAddsSpacingLast ==
    (Applied("grid") /\ nodeCount > 0) =>
        LET cols == GridCols(Len(nodeOrder))
            cw == CellAfterMinimum(MinCellWidth, LargestWidth)
            ch == CellAfterMinimum(MinCellHeight, LargestHeight)
        IN /\ \A k \in DOMAIN nodeOrder :
                 nodes_[nodeOrder[k]].position =
                     Pt(config_.marginX + ((k - 1) % cols) * cw
                            + (cw - nodes_[nodeOrder[k]].size.x) \div 2,
                        config_.marginY + ((k - 1) \div cols) * ch
                            + (ch - nodes_[nodeOrder[k]].size.y) \div 2)
           /\ result.boundingBox =
                 Pt(cols * cw + 2 * config_.marginX,
                    GridRows(Len(nodeOrder)) * ch + 2 * config_.marginY)

\* the squared distance between the centers of nodes a and b of the map ns
CenterDistanceSq(ns, a, b) ==
    LET d == Delta(Center(ns[a]), Center(ns[b])) IN d.x * d.x + d.y * d.y

\* C27: every pair of nodes the overlap cleanup of ForceDirectedLayout
\* detects as overlapping is moved apart: after the separation step the
\* distance between the two centers is not smaller than before it.
C27_SeparationMovesApart ==
    Applied("force_directed") =>
        \A k \in DOMAIN work.separated :
            CenterDistanceSq(work.separated[k].after, work.separated[k].id1,
                             work.separated[k].id2)
                >= CenterDistanceSq(work.separated[k].before, work.separated[k].id1,
                                    work.separated[k].id2)

\* the step is a call of HierarchicalLayout::apply that reports a cycle
HierarchicalFails ==
    /\ applies' = applies + 1
    /\ lastCall'.op = "hierarchical"
    /\ result'.errorMessage = CycleMessage

\* C28: a HierarchicalLayout::apply that fails because of a cycle leaves
\* the graph as it was before the call: every node keeps its position and
\* size, and the nodes, edges and adjacency lists are the same.
C28_FailureLeavesGraph ==
    [][HierarchicalFails =>
          /\ nodes_' = nodes_
          /\ nodeOrder' = nodeOrder
          /\ edges_' = edges_
          /\ adjacency_list_' = adjacency_list_]_vars

\* a failed apply whose sweep had processed a node that lies elsewhere than
\* the first place of the first layer
C28_Witness ==
    /\ Applied("hierarchical")
    /\ result.errorMessage = CycleMessage
    /\ ~ result.success
    /\ \E k \in DOMAIN work.dequeued :
          /\ work.dequeued[k] \in DOMAIN nodes_
          /\ nodes_[work.dequeued[k]].position # Pt(config_.marginX, config_.marginY)

PositiveSizes == \A k \in DOMAIN nodes_ : nodes_[k].size.x > 0 /\ nodes_[k].size.y > 0

\* the nodes of the graph on layer l (1-based), in their order on the layer
NodesOnLayer(l) == SelectSeq(layers_[l], IsNode)

\* consecutive nodes of every layer are at least nodeSpacing apart
\* horizontally, and every node of a layer ends at least layerSpacing above
\* the nodes of the next layer
LayersSeparated ==
    /\ \A l \in DOMAIN layers_ :
          \A i \in 1..(Len(NodesOnLayer(l)) - 1) :
              nodes_[NodesOnLayer(l)[i]].position.x + nodes_[NodesOnLayer(l)[i]].size.x
                  + config_.nodeSpacing <= nodes_[NodesOnLayer(l)[i + 1]].position.x
    /\ \A l \in 1..(Len(layers_) - 1) :
          \A a \in Range(NodesOnLayer(l)), b \in Range(NodesOnLayer(l + 1)) :
              nodes_[a].position.y + nodes_[a].size.y + config_.layerSpacing
                  <= nodes_[b].position.y

\* C29: after a successful HierarchicalLayout::apply with nodeSpacing >= 0
\* and layerSpacing >= 0 on nodes of positive size, no two node rectangles
\* overlap (countOverlaps = 0): the nodes of one layer are at least
\* nodeSpacing apart horizontally and consecutive layers at least
\* layerSpacing apart vertically.
C29_NoOverlapAfterLayering ==
    ( /\ Applied("hierarchical")
      /\ result.success
      /\ config_.nodeSpacing >= 0
      /\ config_.layerSpacing >= 0
      /\ PositiveSizes )
    => /\ countOverlaps(nodes_, nodeOrder, 0) = 0
       /\ LayersSeparated

\* the same on graphs whose edges join existing nodes
C29_WithValidEdges ==
    ( /\ Applied("hierarchical")
      /\ result.success
      /\ ValidEdges
      /\ config_.nodeSpacing >= 0
      /\ config_.layerSpacing >= 0
      /\ PositiveSizes )
    => /\ countOverlaps(nodes_, nodeOrder, 0) = 0
       /\ LayersSeparated

\* C30: whatever nodeCount, edgeProbability and the values of rand(),
\* utils::createTestGraph returns a graph with exactly the node ids
\* 0..nodeCount-1 whose edges all go from a smaller node id to a strictly
\* larger one, without self-loops, duplicate edges or cycles, and
\* HierarchicalLayout::apply succeeds on it.
C30_TestGraphIsLayered ==
    observed.op = "createTestGraph" =>
        /\ DOMAIN nodes_ = 0..(observed.count - 1)
        /\ \A i \in DOMAIN edges_ :
              /\ IsNode(edges_[i].from)
              /\ IsNode(edges_[i].to)
              /\ edges_[i].from < edges_[i].to
        /\ \A i, j \in DOMAIN edges_ : i # j => edges_[i] # edges_[j]
        /\ ~ HasCycleIn(DOMAIN nodes_)
        /\ Applied("hierarchical") => result.success

\* the complete graph on TestNodes nodes, laid out on as many layers
C30_Witness ==
    /\ observed.op = "createTestGraph"
    /\ observed.count = TestNodes
    /\ Len(edges_) = (TestNodes * (TestNodes - 1)) \div 2
    /\ Applied("hierarchical")
    /\ result.success
    /\ Len(layers_) = TestNodes
====
